---- MODULE Spec2Model ----
(***************************************************************************)
(* credwrap: the daemon's per-connection session engine                    *)
(* (internal/server/server.go), the argument policy of a tool              *)
(* (internal/config/config.go), the authorization predicate, the daemon's  *)
(* shutdown (cmd/credwrap-server/main.go), the secrets and tools commands  *)
(* (cmd/credwrap-server/tools.go), the audit file shared by the sessions,  *)
(* and the credwrap caller process (internal/client/client.go).            *)
(*                                                                         *)
(* Strings the code inspects character by character (arguments, regular    *)
(* expressions) are sequences of characters; strings it only compares      *)
(* (tokens, tool names, secret names, node ids) are TLA+ strings.          *)
(***************************************************************************)
EXTENDS Integers, Sequences, FiniteSets, TLC

VARIABLES
    auth,         \* s.cfg.Auth: [Tokens, AllowedIPs, TailscaleNodes, RequireToken]
    auditOn,      \* s.auditFile != nil (cfg.Server.Audit was set)
    remoteAddr,   \* conn.RemoteAddr() of the connection
    inbox,        \* records the caller wrote that the daemon has not read yet
    sent,         \* number of records the caller has written
    clientClosed, \* the caller closed its end of the connection
    pc,           \* position of handleConnection: "idle", "run", "closed"
    cur,          \* the latest handleExec call: its request and how far it got
    wire,         \* records the daemon wrote to the connection, in wire order,
                  \* since it read the latest exec record
    auditLog,     \* lines the session wrote to the audit file, in file order,
                  \* since it read the latest exec record
    child,        \* the child process of the running exec, or Nil
    pumpOut,      \* streamOutput goroutine of stdout: "off", "run", "done"
    pumpErr,      \* streamOutput goroutine of stderr: "off", "run", "done"
    stdinPumps,   \* ids of the execs whose stdin goroutine is still running
    call,         \* a single function application (function specifications)
    listener,     \* s.listener of the daemon: "open" or "closed"
    disk,         \* the credentials file and the keyfiles next to it
    op,           \* the latest run of a secrets command, or of the daemon's load
    client,       \* the credwrap caller process on the other end, if modelled
    auditFile     \* s.auditFile and s.auditMu, with the sessions inside audit

vars == <<auth, auditOn, remoteAddr, inbox, sent, clientClosed, pc, cur, wire,
          auditLog, child, pumpOut, pumpErr, stdinPumps, call, listener, disk,
          op, client, auditFile>>

sessionVars == <<inbox, sent, clientClosed, pc, cur, wire, auditLog, child,
                 pumpOut, pumpErr, stdinPumps, client>>

(***************************************************************************)
(* Bounds of the model.                                                    *)
(***************************************************************************)
MaxSend == 3      \* records the caller writes on one connection
MaxLines == 1     \* lines the child writes to each of its output streams
MaxArgs == 2      \* length of an argument vector (function specification)
MaxArgLen == 2    \* characters of one argument (function specification)

(***************************************************************************)
(* Characters, strings and argument vectors.                               *)
(***************************************************************************)
Chars == {"a", "B"}

StringsUpTo(n) == UNION {[1..k -> Chars] : k \in 0..n}

VectorsUpTo(n, S) == UNION {[1..k -> S] : k \in 0..n}

(***************************************************************************)
(* regexp.Compile / Regexp.MatchString for the patterns ^?[a]+$? .         *)
(* A pattern text is a sequence of the tokens "^", "[a]+", "$"; the empty  *)
(* text is "no args_pattern".  MatchString reports whether the string      *)
(* CONTAINS a match: "^" pins the match to the start of the text and "$"   *)
(* to its end, and nothing else does.                                      *)
(***************************************************************************)
PatternTexts ==
    { <<"^", "[a]+", "$">>, <<"[a]+">>, <<"^", "[a]+">>, <<"[a]+", "$">> }

Compile(text) ==
    [nil   |-> FALSE,
     bol   |-> text[1] = "^",
     eol   |-> text[Len(text)] = "$",
     class |-> {"a"}]

MatchString(re, s) ==
    \E i \in 1..Len(s) : \E j \in i..Len(s) :
        /\ \A k \in i..j : s[k] \in re.class
        /\ re.bol => i = 1
        /\ re.eol => j = Len(s)

\* LoadConfig: argsRegex is compiled only for a non-empty args_pattern.
NilRegex == [nil |-> TRUE]

argsRegex(t) == IF t.ArgsPattern = <<>> THEN NilRegex ELSE Compile(t.ArgsPattern)

(***************************************************************************)
(* Tool.ValidateArgs: NoError (nil) or the error naming the first argument *)
(* that does not match.                                                    *)
(***************************************************************************)
NoError == [err |-> FALSE]

ArgError(arg) ==
    [err |-> TRUE, text |-> "argument does not match allowed pattern", arg |-> arg]

RECURSIVE FirstMismatch(_, _, _)
FirstMismatch(re, args, i) ==
    IF i > Len(args) THEN NoError
    ELSE IF ~MatchString(re, args[i]) THEN ArgError(args[i])
    ELSE FirstMismatch(re, args, i + 1)

\* mutant: the pass_args test is missing
ValidateArgs_NoPassArgs(t, args) ==
    IF ~argsRegex(t).nil THEN FirstMismatch(argsRegex(t), args, 1)
    ELSE NoError

ValidateArgs(t, args) ==
    IF t.PassArgs THEN NoError
    ELSE IF ~argsRegex(t).nil THEN FirstMismatch(argsRegex(t), args, 1)
    ELSE NoError

(***************************************************************************)
(* Peer addresses.  Addresses and allowlist entries are texts (sequences   *)
(* of characters), as in the code.  The address space has two bits: the    *)
(* text of the IPv4 address n is the one digit n (a dotted quad, read as   *)
(* one character), an IPv6 address n is written "::n" or "0::n", and a     *)
(* CIDR block is an address, "/" and a prefix length of 0..2.  A           *)
(* connection's RemoteAddr is "n:9" or "[::n]:9".                          *)
(***************************************************************************)
Digits == <<"0", "1", "2", "3">>

IsDigit(c) == \E k \in 1..Len(Digits) : Digits[k] = c

DigitValue(c) == (CHOOSE k \in 1..Len(Digits) : Digits[k] = c) - 1

IP(n) == <<Digits[n + 1]>>
IP6(n) == <<":", ":", Digits[n + 1]>>
CIDR(n, bits) == <<Digits[n + 1], "/", Digits[bits + 1]>>

Pow2(n) == IF n = 0 THEN 1 ELSE IF n = 1 THEN 2 ELSE 4

\* bytealg.IndexByteString and LastIndexByteString, 1-based, 0 when absent
IndexByte(s, c) ==
    IF \E k \in 1..Len(s) : s[k] = c
    THEN CHOOSE k \in 1..Len(s) :
            s[k] = c /\ \A m \in 1..(k - 1) : s[m] # c
    ELSE 0

LastIndexByte(s, c) ==
    IF \E k \in 1..Len(s) : s[k] = c
    THEN CHOOSE k \in 1..Len(s) :
            s[k] = c /\ \A m \in (k + 1)..Len(s) : s[m] # c
    ELSE 0

Slice(s, from, to) == SubSeq(s, from, to)

SplitError == [err |-> TRUE, host |-> <<>>, port |-> <<>>]

\* net.SplitHostPort
SplitHostPort(hostport) ==
    LET i   == LastIndexByte(hostport, ":")
        end == IndexByte(hostport, "]")
        bracketed == hostport[1] = "["
        host == IF bracketed THEN Slice(hostport, 2, end - 1)
                ELSE Slice(hostport, 1, i - 1)
        j == IF bracketed THEN 2 ELSE 1
        k == IF bracketed THEN end + 1 ELSE 1
    IN IF i = 0 THEN SplitError
       ELSE IF bracketed /\ end = 0 THEN SplitError
       ELSE IF bracketed /\ end + 1 # i THEN SplitError
       ELSE IF ~bracketed /\ IndexByte(host, ":") # 0 THEN SplitError
       ELSE IF IndexByte(Slice(hostport, j, Len(hostport)), "[") # 0
       THEN SplitError
       ELSE IF IndexByte(Slice(hostport, k, Len(hostport)), "]") # 0
       THEN SplitError
       ELSE [err |-> FALSE, host |-> host,
             port |-> Slice(hostport, i + 1, Len(hostport))]

\* extractIP: the host of "host:port", or the whole text when it does not
\* split
extractIP(addr) ==
    LET r == SplitHostPort(addr)
    IN IF r.err THEN addr ELSE r.host

NoIP == [ok |-> FALSE, family |-> 0, addr |-> 0]

\* net.ParseIP
ParseIP(s) ==
    IF Len(s) = 1 /\ IsDigit(s[1])
    THEN [ok |-> TRUE, family |-> 4, addr |-> DigitValue(s[1])]
    ELSE IF Len(s) = 3 /\ s[1] = ":" /\ s[2] = ":" /\ IsDigit(s[3])
    THEN [ok |-> TRUE, family |-> 6, addr |-> DigitValue(s[3])]
    ELSE IF Len(s) = 4 /\ s[1] = "0" /\ s[2] = ":" /\ s[3] = ":"
                       /\ IsDigit(s[4])
    THEN [ok |-> TRUE, family |-> 6, addr |-> DigitValue(s[4])]
    ELSE NoIP

NoNet == [ok |-> FALSE, family |-> 0, addr |-> 0, bits |-> 0]

\* net.ParseCIDR: the address before "/", the prefix length after it; the
\* network's address is the address with the host bits cleared
ParseCIDR(s) ==
    LET i    == IndexByte(s, "/")
        ip   == ParseIP(Slice(s, 1, i - 1))
        mask == Slice(s, i + 1, Len(s))
        bits == DigitValue(mask[1])
    IN IF i = 0 THEN NoNet
       ELSE IF ~ip.ok THEN NoNet
       ELSE IF Len(mask) # 1 \/ ~IsDigit(mask[1]) THEN NoNet
       ELSE IF bits > 2 THEN NoNet
       ELSE [ok |-> TRUE, family |-> ip.family,
             addr |-> (ip.addr \div Pow2(2 - bits)) * Pow2(2 - bits),
             bits |-> bits]

\* (*net.IPNet).Contains
Contains(cidr, ip) ==
    /\ cidr.family = ip.family
    /\ (ip.addr \div Pow2(2 - cidr.bits)) * Pow2(2 - cidr.bits) = cidr.addr

\* mutant: an address matches every well-formed CIDR block
matchIP_AnyBlock(clientIP, allowed) ==
    IF clientIP = allowed THEN TRUE
    ELSE IF ~ParseCIDR(allowed).ok THEN FALSE
    ELSE ParseIP(clientIP).ok

\* matchIP: exact match first, then CIDR containment
matchIP(clientIP, allowed) ==
    IF clientIP = allowed THEN TRUE
    ELSE IF ~ParseCIDR(allowed).ok THEN FALSE
    ELSE IF ~ParseIP(clientIP).ok THEN FALSE
    ELSE Contains(ParseCIDR(allowed), ParseIP(clientIP))

(***************************************************************************)
(* Server.authenticate.  nodeID is what getTailscaleNodeID returns for the *)
(* peer ("" when the lookup fails); it is asked for only when a node       *)
(* allowlist is configured.                                                *)
(***************************************************************************)
tokenValid(a, token) == \E t \in a.Tokens : token = t

ipValid(a, addr) ==
    IF a.AllowedIPs # {}
    THEN \E allowed \in a.AllowedIPs : matchIP(extractIP(addr), allowed)
    ELSE TRUE

tailscaleValid(a, nodeID) ==
    IF a.TailscaleNodes # {}
    THEN \E allowed \in a.TailscaleNodes : nodeID = allowed
    ELSE FALSE

\* mutant: a valid IP counts also when no IP allowlist is configured
authenticate_NoAllowlistGuard(a, token, addr, nodeID) ==
    IF \/ a.RequireToken
       \/ (a.Tokens # {} /\ a.AllowedIPs = {} /\ a.TailscaleNodes = {})
    THEN tokenValid(a, token) /\ ipValid(a, addr)
    ELSE \/ tokenValid(a, token)
         \/ ipValid(a, addr)
         \/ tailscaleValid(a, nodeID)

authenticate(a, token, addr, nodeID) ==
    IF \/ a.RequireToken
       \/ (a.Tokens # {} /\ a.AllowedIPs = {} /\ a.TailscaleNodes = {})
    THEN tokenValid(a, token) /\ ipValid(a, addr)
    ELSE \/ tokenValid(a, token)
         \/ (ipValid(a, addr) /\ a.AllowedIPs # {})
         \/ tailscaleValid(a, nodeID)

(***************************************************************************)
(* The loaded configuration: tool registry, SecretStore, daemon            *)
(* environment.  They are read-only after startup.                         *)
(***************************************************************************)
Cred(env, secret) == [Env |-> env, Secret |-> secret]

sA == <<"a">>
sAB == <<"a", "B">>

Tools ==
    [echo  |-> [Path |-> "/bin/echo", Credentials |-> <<>>,
                PassArgs |-> TRUE, ArgsPattern |-> <<>>],
     env   |-> [Path |-> "/usr/bin/env",
                Credentials |-> <<Cred("SECRET_X", "my-secret")>>,
                PassArgs |-> FALSE, ArgsPattern |-> <<"^", "[a]+", "$">>],
     sub   |-> [Path |-> "/bin/ls",
                Credentials |-> <<Cred("", "header-secret")>>,
                PassArgs |-> FALSE, ArgsPattern |-> <<"[a]+">>],
     nopol |-> [Path |-> "/bin/date", Credentials |-> <<>>,
                PassArgs |-> FALSE, ArgsPattern |-> <<>>],
     miss  |-> [Path |-> "/bin/cat",
                Credentials |-> <<Cred("SECRET_X", "my-secret"),
                                  Cred("OTHER", "gone")>>,
                PassArgs |-> TRUE, ArgsPattern |-> <<>>]]

Credentials == [s \in {"my-secret"} |-> "alpha"]

\* os.Environ() of the daemon, as (name, value) entries
DaemonEnv == << <<"PATH", "/bin">> >>

(***************************************************************************)
(* The environment of the child.  handleExec appends one NAME=value entry  *)
(* per credential binding that has an env name, then the entries of the    *)
(* request's env map; os/exec gives the child, for a name that occurs more *)
(* than once in cmd.Env, the LAST entry.                                   *)
(***************************************************************************)
\* mutant: the lookup's ok result is ignored and the empty value is injected
RECURSIVE credentialEnv_IgnoreMissing(_, _, _, _)
credentialEnv_IgnoreMissing(store, creds, i, e) ==
    IF i > Len(creds) THEN [missing |-> "", env |-> e]
    ELSE IF creds[i].Env = ""
    THEN credentialEnv_IgnoreMissing(store, creds, i + 1, e)
    ELSE credentialEnv_IgnoreMissing(
             store, creds, i + 1,
             Append(e, <<creds[i].Env,
                         IF creds[i].Secret \in DOMAIN store
                         THEN store[creds[i].Secret] ELSE "">>))

RECURSIVE credentialEnv(_, _, _, _)
credentialEnv(store, creds, i, e) ==
    IF i > Len(creds) THEN [missing |-> "", env |-> e]
    ELSE IF creds[i].Env = "" THEN credentialEnv(store, creds, i + 1, e)
    ELSE IF creds[i].Secret \notin DOMAIN store
         THEN [missing |-> creds[i].Secret, env |-> e]
    ELSE credentialEnv(store, creds, i + 1,
                       Append(e, <<creds[i].Env, store[creds[i].Secret]>>))

\* the range over req.Env: a map, so each name once, in some order
RECURSIVE requestEnv(_, _)
requestEnv(m, e) ==
    IF m = {} THEN e
    ELSE LET kv == CHOOSE x \in m : TRUE
         IN requestEnv(m \ {kv}, Append(e, kv))

\* the value the child sees for a name: the last entry wins; "" when unset
RECURSIVE Getenv(_, _)
Getenv(e, name) ==
    IF e = <<>> THEN ""
    ELSE IF e[Len(e)][1] = name THEN e[Len(e)][2]
    ELSE Getenv(SubSeq(e, 1, Len(e) - 1), name)

(***************************************************************************)
(* Server.handleExec up to and including cmd.Start(): what the daemon      *)
(* answers and audits, and the step at which the dispatch ended.  os is    *)
(* what the operating system does with the pipes and the start.            *)
(***************************************************************************)
OSOutcomes == {"ok", "stdout pipe", "stderr pipe", "stdin pipe", "start"}

Failed(text, status, step) ==
    [started |-> FALSE, message |-> text, audit |-> status, reached |-> step,
     env |-> <<>>]

\* mutant: the tool is looked up before the request is authenticated
handleExec_LookupFirst(store, a, addr, req, nodeID, os) ==
    IF req.tool \notin DOMAIN Tools
    THEN Failed([text |-> "unknown tool: ", tool |-> req.tool],
                "unknown_tool", "lookup")
    ELSE IF ~authenticate(a, req.token, addr, nodeID)
    THEN Failed([text |-> "authentication failed"], "auth_failed", "auth")
    ELSE LET tool == Tools[req.tool]
             verr == ValidateArgs(tool, req.args)
             ce   == credentialEnv(store, tool.Credentials, 1, DaemonEnv)
         IN IF verr.err
            THEN Failed([text |-> verr.text, arg |-> verr.arg],
                        "invalid_args", "validate")
            ELSE IF ce.missing # ""
            THEN Failed([text |-> "credential not found: ",
                         secret |-> ce.missing], "", "env")
            ELSE IF os \in {"stdout pipe", "stderr pipe", "stdin pipe"}
            THEN Failed([text |-> os, oserr |-> TRUE], "", "pipes")
            ELSE IF os = "start"
            THEN Failed([text |-> "start: ", oserr |-> TRUE],
                        "start_failed", "start")
            ELSE [started |-> TRUE, message |-> [text |-> ""], audit |-> "ok",
                  reached |-> "started",
                  env |-> requestEnv(req.env, ce.env)]

\* mutant: the diagnostic of a failed start shows the child's environment
handleExec_ShowEnv(store, a, addr, req, nodeID, os) ==
    IF ~authenticate(a, req.token, addr, nodeID)
    THEN Failed([text |-> "authentication failed"], "auth_failed", "auth")
    ELSE IF req.tool \notin DOMAIN Tools
    THEN Failed([text |-> "unknown tool: ", tool |-> req.tool],
                "unknown_tool", "lookup")
    ELSE LET tool == Tools[req.tool]
             verr == ValidateArgs(tool, req.args)
             ce   == credentialEnv(store, tool.Credentials, 1, DaemonEnv)
         IN IF verr.err
            THEN Failed([text |-> verr.text, arg |-> verr.arg],
                        "invalid_args", "validate")
            ELSE IF ce.missing # ""
            THEN Failed([text |-> "credential not found: ",
                         secret |-> ce.missing], "", "env")
            ELSE IF os \in {"stdout pipe", "stderr pipe", "stdin pipe"}
            THEN Failed([text |-> os, oserr |-> TRUE], "", "pipes")
            ELSE IF os = "start"
            THEN Failed([text |-> "start: ", oserr |-> TRUE,
                         secret |-> ce.env[Len(ce.env)][2]],
                        "start_failed", "start")
            ELSE [started |-> TRUE, message |-> [text |-> ""], audit |-> "ok",
                  reached |-> "started",
                  env |-> requestEnv(req.env, ce.env)]

handleExec(store, a, addr, req, nodeID, os) ==
    IF ~authenticate(a, req.token, addr, nodeID)
    THEN Failed([text |-> "authentication failed"], "auth_failed", "auth")
    ELSE IF req.tool \notin DOMAIN Tools
    THEN Failed([text |-> "unknown tool: ", tool |-> req.tool],
                "unknown_tool", "lookup")
    ELSE LET tool == Tools[req.tool]
             verr == ValidateArgs(tool, req.args)
             ce   == credentialEnv(store, tool.Credentials, 1, DaemonEnv)
         IN IF verr.err
            THEN Failed([text |-> verr.text, arg |-> verr.arg],
                        "invalid_args", "validate")
            ELSE IF ce.missing # ""
            THEN Failed([text |-> "credential not found: ",
                         secret |-> ce.missing], "", "env")
            ELSE IF os \in {"stdout pipe", "stderr pipe", "stdin pipe"}
            THEN Failed([text |-> os, oserr |-> TRUE], "", "pipes")
            ELSE IF os = "start"
            THEN Failed([text |-> "start: ", oserr |-> TRUE],
                        "start_failed", "start")
            ELSE [started |-> TRUE, message |-> [text |-> ""], audit |-> "ok",
                  reached |-> "started",
                  env |-> requestEnv(req.env, ce.env)]

(***************************************************************************)
(* Records.                                                                *)
(***************************************************************************)
ErrorRec(id, m) == [type |-> "error", req |-> id, message |-> m]
StartedRec(id) == [type |-> "started", req |-> id, pid |-> id]
OutputRec(t, id, line) == [type |-> t, req |-> id, data |-> line]
ExitRec(id, code) == [type |-> "exit", req |-> id, code |-> code]
PongRec == [type |-> "pong", req |-> 0, version |-> "0.1.0"]

\* mutant: the test of s.auditFile is inverted
audit_Inverted(log, on, id, addr, req, exitCode, status) ==
    IF on THEN log
    ELSE Append(log, [req |-> id, client |-> addr, tool |-> req.tool,
                      args |-> req.args, exit_code |-> exitCode,
                      status |-> status])

\* Server.audit: nothing is written when no audit file is configured
audit(log, on, id, addr, req, exitCode, status) ==
    IF ~on THEN log
    ELSE Append(log, [req |-> id, client |-> addr, tool |-> req.tool,
                      args |-> req.args, exit_code |-> exitCode,
                      status |-> status])

\* out and err are the lines in the two pipes, each line the number it has
\* on its stream; long are the lines of bufio.MaxScanTokenSize (64 KiB) or
\* more
NoChild ==
    [req |-> 0, alive |-> FALSE, code |-> 0, out |-> <<>>, err |-> <<>>,
     nout |-> 0, nerr |-> 0, long |-> {}, stdin |-> <<>>, stdinOpen |-> FALSE]

NewChild(id) ==
    [req |-> id, alive |-> TRUE, code |-> 0, out |-> <<>>, err |-> <<>>,
     nout |-> 0, nerr |-> 0, long |-> {}, stdin |-> <<>>, stdinOpen |-> TRUE]

(***************************************************************************)
(* What the caller may write: any record, at any time.  The fields of an   *)
(* exec record are opaque bytes until handleConnection decodes the line,   *)
(* so they are drawn where the record is decoded.                          *)
(***************************************************************************)
ReqTokens == {"T", "X"}
ReqTools == DOMAIN Tools \cup {"nope"}
ReqArgs == {<<>>, <<sA>>, <<sAB>>}
ReqEnvs == {{}, {<<"SECRET_X", "evil">>}}

ExecMsgs ==
    [type : {"exec"}, token : ReqTokens, tool : ReqTools, args : ReqArgs,
     env : ReqEnvs]

\* the exec records of the session specification
SessionExecs ==
    [type : {"exec"}, token : ReqTokens, tool : {"echo", "nope"},
     args : {<<sA>>}, env : {{}}]

\* "junk" is a line that is not JSON; "badexec" has type exec and fields of
\* the wrong JSON type; "bogus" is an unknown type
OtherMsgs ==
    {[type |-> t] : t \in {"ping", "stdin_close", "junk", "badexec", "bogus"}}

WhoisResults == {"", "n1", "n2"}

ExitCodes == {0, 1, -1}

(***************************************************************************)
(* The caller.  The daemon cannot tell a record that is in flight from one *)
(* that has not been written yet (TCP delivers in order and the reader     *)
(* blocks), so the caller writes its next record when the previous one has *)
(* been read: every interleaving with more records in flight has the same  *)
(* reads in the same order.                                                *)
(***************************************************************************)
ClientSend ==
    /\ ~clientClosed
    /\ inbox = <<>>
    /\ sent < MaxSend
    /\ \E m \in OtherMsgs \cup {[type |-> "exec"],
                               [type |-> "stdin", data |-> sent + 1]} :
          inbox' = Append(inbox, m)
    /\ sent' = sent + 1
    /\ UNCHANGED <<auth, auditOn, remoteAddr, clientClosed, pc, cur, wire,
                   auditLog, child, pumpOut, pumpErr, stdinPumps, call, listener,
                   disk, op, client, auditFile>>

\* a caller that writes one exec record and nothing else
ClientSendExec ==
    /\ ~clientClosed
    /\ sent = 0
    /\ inbox' = <<[type |-> "exec"]>>
    /\ sent' = 1
    /\ UNCHANGED <<auth, auditOn, remoteAddr, clientClosed, pc, cur, wire,
                   auditLog, child, pumpOut, pumpErr, stdinPumps, call, listener,
                   disk, op, client, auditFile>>

ClientClose ==
    /\ ~clientClosed
    /\ clientClosed' = TRUE
    /\ UNCHANGED <<auth, auditOn, remoteAddr, inbox, sent, pc, cur, wire,
                   auditLog, child, pumpOut, pumpErr, stdinPumps, call, listener,
                   disk, op, client, auditFile>>

(***************************************************************************)
(* handleConnection: one iteration of the read loop.                       *)
(***************************************************************************)
\* the answer of the loop to a record that is not a well-formed exec
idleAnswer(m) ==
    IF m.type = "junk" THEN <<ErrorRec(0, [text |-> "invalid JSON"])>>
    ELSE IF m.type = "ping" THEN <<PongRec>>
    ELSE IF m.type = "badexec"
    THEN <<ErrorRec(0, [text |-> "invalid exec request"])>>
    ELSE <<ErrorRec(0, [text |-> "unknown message type: ", type |-> m.type])>>

\* mutant: a record the loop cannot decode ends the session
ReadOther_Teardown ==
    /\ pc = "idle"
    /\ inbox # <<>>
    /\ Head(inbox).type # "exec"
    /\ wire' = wire \o idleAnswer(Head(inbox))
    /\ pc' = IF Head(inbox).type \in {"junk", "bogus"} THEN "closed" ELSE pc
    /\ inbox' = Tail(inbox)
    /\ UNCHANGED <<auth, auditOn, remoteAddr, sent, clientClosed, cur,
                   auditLog, child, pumpOut, pumpErr, stdinPumps, call, listener,
                   disk, op, client, auditFile>>

ReadOther ==
    /\ pc = "idle"
    /\ inbox # <<>>
    /\ Head(inbox).type # "exec"
    /\ wire' = wire \o idleAnswer(Head(inbox))
    /\ inbox' = Tail(inbox)
    /\ UNCHANGED <<auth, auditOn, remoteAddr, sent, clientClosed, pc, cur,
                   auditLog, child, pumpOut, pumpErr, stdinPumps, call, listener,
                   disk, op, client, auditFile>>

\* mutant: the return after a failed pipe setup is missing, so the child is
\* started all the same and started follows the error
ReadExecFrom_NoReturn(execs) ==
    /\ pc = "idle"
    /\ inbox # <<>>
    /\ Head(inbox).type = "exec"
    /\ \E req \in execs, nodeID \in WhoisResults, os \in OSOutcomes :
          LET id == cur.id + 1
              r  == handleExec(Credentials, auth, remoteAddr, req, nodeID, os)
          IN /\ auth.TailscaleNodes = {} => nodeID = ""
             /\ os # "ok" => handleExec(Credentials, auth, remoteAddr, req,
                                        nodeID, "ok").started
             /\ cur' = [id |-> id, req |-> req,
                        authOk |-> authenticate(auth, req.token, remoteAddr, nodeID),
                        reached |-> r.reached, env |-> r.env]
             /\ IF r.started \/ r.reached = "pipes"
                THEN /\ wire' = IF r.started THEN <<StartedRec(id)>>
                                ELSE <<ErrorRec(id, r.message), StartedRec(id)>>
                     /\ child' = NewChild(id)
                     /\ pumpOut' = "run"
                     /\ pumpErr' = "run"
                     /\ stdinPumps' = stdinPumps \cup {id}
                     /\ pc' = "run"
                     /\ auditLog' = <<>>
                ELSE /\ wire' = <<ErrorRec(id, r.message)>>
                     /\ auditLog' = IF r.audit = "" THEN <<>>
                                    ELSE audit(<<>>, auditOn, id, remoteAddr,
                                               req, -1, r.audit)
                     /\ UNCHANGED <<child, pumpOut, pumpErr, stdinPumps, pc>>
    /\ inbox' = Tail(inbox)
    /\ UNCHANGED <<auth, auditOn, remoteAddr, sent, clientClosed, call, listener,
                   disk, op, client, auditFile>>

\* mutant: handleExec runs in a goroutine of its own, so the loop reads on
\* while the child runs
ReadExecFrom_Async(execs) ==
    /\ pc \in {"idle", "run"}
    /\ inbox # <<>>
    /\ Head(inbox).type = "exec"
    /\ \E req \in execs, nodeID \in WhoisResults, os \in OSOutcomes :
          LET id == cur.id + 1
              r  == handleExec(Credentials, auth, remoteAddr, req, nodeID, os)
          IN /\ auth.TailscaleNodes = {} => nodeID = ""
             /\ os # "ok" => handleExec(Credentials, auth, remoteAddr, req,
                                        nodeID, "ok").started
             /\ cur' = [id |-> id, req |-> req,
                        authOk |-> authenticate(auth, req.token, remoteAddr, nodeID),
                        reached |-> r.reached, env |-> r.env]
             /\ IF r.started
                THEN /\ wire' = <<StartedRec(id)>>
                     /\ child' = NewChild(id)
                     /\ pumpOut' = "run"
                     /\ pumpErr' = "run"
                     /\ stdinPumps' = stdinPumps \cup {id}
                     /\ pc' = "run"
                     /\ auditLog' = <<>>
                ELSE /\ wire' = <<ErrorRec(id, r.message)>>
                     /\ auditLog' = IF r.audit = "" THEN <<>>
                                    ELSE audit(<<>>, auditOn, id, remoteAddr,
                                               req, -1, r.audit)
                     /\ UNCHANGED <<child, pumpOut, pumpErr, stdinPumps, pc>>
    /\ inbox' = Tail(inbox)
    /\ UNCHANGED <<auth, auditOn, remoteAddr, sent, clientClosed, call, listener,
                   disk, op, client, auditFile>>

\* case protocol.TypeExec: handleExec up to the start of the child, for an
\* exec record whose fields are one of execs
ReadExecFrom(execs) ==
    /\ pc = "idle"
    /\ inbox # <<>>
    /\ Head(inbox).type = "exec"
    /\ \E req \in execs, nodeID \in WhoisResults, os \in OSOutcomes :
          LET id == cur.id + 1
              r  == handleExec(Credentials, auth, remoteAddr, req, nodeID, os)
          IN /\ auth.TailscaleNodes = {} => nodeID = ""
             /\ os # "ok" => handleExec(Credentials, auth, remoteAddr, req,
                                        nodeID, "ok").started
             /\ cur' = [id |-> id, req |-> req,
                        authOk |-> authenticate(auth, req.token, remoteAddr, nodeID),
                        reached |-> r.reached, env |-> r.env]
             /\ IF r.started
                THEN /\ wire' = <<StartedRec(id)>>
                     /\ child' = NewChild(id)
                     /\ pumpOut' = "run"
                     /\ pumpErr' = "run"
                     /\ stdinPumps' = stdinPumps \cup {id}
                     /\ pc' = "run"
                     /\ auditLog' = <<>>
                ELSE /\ wire' = <<ErrorRec(id, r.message)>>
                     /\ auditLog' = IF r.audit = "" THEN <<>>
                                    ELSE audit(<<>>, auditOn, id, remoteAddr,
                                               req, -1, r.audit)
                     /\ UNCHANGED <<child, pumpOut, pumpErr, stdinPumps, pc>>
    /\ inbox' = Tail(inbox)
    /\ UNCHANGED <<auth, auditOn, remoteAddr, sent, clientClosed, call, listener,
                   disk, op, client, auditFile>>

ReadExec == ReadExecFrom(SessionExecs)

DispatchExec == ReadExecFrom(ExecMsgs)

\* reader.ReadBytes returns io.EOF: return, and the deferred conn.Close()
ReadEOF ==
    /\ pc = "idle"
    /\ inbox = <<>>
    /\ clientClosed
    /\ pc' = "closed"
    /\ UNCHANGED <<auth, auditOn, remoteAddr, inbox, sent, clientClosed, cur,
                   wire, auditLog, child, pumpOut, pumpErr, stdinPumps, call, listener,
                   disk, op, client, auditFile>>

(***************************************************************************)
(* The child process: it writes lines to its two output pipes and exits    *)
(* (code -1: it was killed by a signal), which closes both pipes.  A write *)
(* to a pipe whose reader is gone (the daemon's process has exited) ends   *)
(* the child with SIGPIPE.                                                 *)
(***************************************************************************)
ChildWriteOut ==
    /\ child.alive
    /\ child.nout < MaxLines
    /\ child' = IF pc = "exited"
                THEN [child EXCEPT !.alive = FALSE, !.code = -1]
                ELSE [child EXCEPT !.out = Append(@, child.nout + 1),
                                   !.nout = @ + 1]
    /\ UNCHANGED <<auth, auditOn, remoteAddr, inbox, sent, clientClosed, pc,
                   cur, wire, auditLog, pumpOut, pumpErr, stdinPumps, call, listener,
                   disk, op, client, auditFile>>

ChildWriteErr ==
    /\ child.alive
    /\ child.nerr < MaxLines
    /\ child' = IF pc = "exited"
                THEN [child EXCEPT !.alive = FALSE, !.code = -1]
                ELSE [child EXCEPT !.err = Append(@, child.nerr + 1),
                                   !.nerr = @ + 1]
    /\ UNCHANGED <<auth, auditOn, remoteAddr, inbox, sent, clientClosed, pc,
                   cur, wire, auditLog, pumpOut, pumpErr, stdinPumps, call, listener,
                   disk, op, client, auditFile>>

\* the child writes a line of 64 KiB or more to one of its pipes
ChildWriteLong ==
    /\ child.alive
    /\ pc = "run"
    /\ \/ /\ child.nout < MaxLines
          /\ child' = [child EXCEPT !.out = Append(@, child.nout + 1),
                                    !.nout = @ + 1,
                                    !.long = @ \cup {<<"stdout", child.nout + 1>>}]
       \/ /\ child.nerr < MaxLines
          /\ child' = [child EXCEPT !.err = Append(@, child.nerr + 1),
                                    !.nerr = @ + 1,
                                    !.long = @ \cup {<<"stderr", child.nerr + 1>>}]
    /\ UNCHANGED <<auth, auditOn, remoteAddr, inbox, sent, clientClosed, pc,
                   cur, wire, auditLog, pumpOut, pumpErr, stdinPumps, call,
                   listener, disk, op, client, auditFile>>

ChildExit ==
    /\ child.alive
    /\ \E code \in ExitCodes :
          child' = [child EXCEPT !.alive = FALSE, !.code = code]
    /\ UNCHANGED <<auth, auditOn, remoteAddr, inbox, sent, clientClosed, pc,
                   cur, wire, auditLog, pumpOut, pumpErr, stdinPumps, call, listener,
                   disk, op, client, auditFile>>

(***************************************************************************)
(* streamOutput: one record per line of the pipe, until scanner.Scan()     *)
(* returns false: at EOF, or at a line that does not fit the Scanner's     *)
(* buffer (bufio.ErrTooLong), which is not looked at; what is left in the  *)
(* pipe is never read.                                                     *)
(***************************************************************************)
streamOutput(w, t, id, pipe) == Append(w, OutputRec(t, id, Head(pipe)))

\* scanner.Scan() fails on the next line of the pipe
ScanFails(t, pipe) == pipe # <<>> /\ <<t, Head(pipe)>> \in child.long

PumpStdout ==
    /\ pumpOut = "run"
    /\ IF ScanFails("stdout", child.out)
       THEN /\ pumpOut' = "done"
            /\ UNCHANGED <<wire, child>>
       ELSE IF child.out # <<>>
       THEN /\ wire' = streamOutput(wire, "stdout", child.req, child.out)
            /\ child' = [child EXCEPT !.out = Tail(@)]
            /\ UNCHANGED pumpOut
       ELSE /\ ~child.alive
            /\ pumpOut' = "done"
            /\ UNCHANGED <<wire, child>>
    /\ UNCHANGED <<auth, auditOn, remoteAddr, inbox, sent, clientClosed, pc,
                   cur, auditLog, pumpErr, stdinPumps, call, listener,
                   disk, op, client, auditFile>>

PumpStderr ==
    /\ pumpErr = "run"
    /\ IF ScanFails("stderr", child.err)
       THEN /\ pumpErr' = "done"
            /\ UNCHANGED <<wire, child>>
       ELSE IF child.err # <<>>
       THEN /\ wire' = streamOutput(wire, "stderr", child.req, child.err)
            /\ child' = [child EXCEPT !.err = Tail(@)]
            /\ UNCHANGED pumpErr
       ELSE /\ ~child.alive
            /\ pumpErr' = "done"
            /\ UNCHANGED <<wire, child>>
    /\ UNCHANGED <<auth, auditOn, remoteAddr, inbox, sent, clientClosed, pc,
                   cur, auditLog, pumpOut, stdinPumps, call, listener,
                   disk, op, client, auditFile>>

(***************************************************************************)
(* The stdin goroutine of exec p.  It reads the connection's reader until  *)
(* stdin_close or a read error; nothing else ends it, so it outlives its   *)
(* exec when the caller sent no stdin_close.                               *)
(***************************************************************************)
\* mutant: the goroutine answers a ping it reads
StdinPumpRead_Pong ==
    /\ inbox # <<>>
    /\ \E p \in stdinPumps :
          LET m == Head(inbox)
              mine == child.req = p /\ child.stdinOpen
          IN /\ stdinPumps' = IF m.type = "stdin_close" THEN stdinPumps \ {p}
                              ELSE stdinPumps
             /\ child' = IF m.type = "stdin" /\ mine /\ child.alive
                         THEN [child EXCEPT !.stdin = Append(@, m.data)]
                         ELSE IF m.type = "stdin_close" /\ mine
                         THEN [child EXCEPT !.stdinOpen = FALSE]
                         ELSE child
             /\ wire' = IF m.type = "ping" THEN Append(wire, PongRec) ELSE wire
    /\ inbox' = Tail(inbox)
    /\ UNCHANGED <<auth, auditOn, remoteAddr, sent, clientClosed, pc, cur,
                   auditLog, pumpOut, pumpErr, call, listener,
                   disk, op, client, auditFile>>

StdinPumpRead ==
    /\ inbox # <<>>
    /\ \E p \in stdinPumps :
          LET m == Head(inbox)
              mine == child.req = p /\ child.stdinOpen
          IN /\ stdinPumps' = IF m.type = "stdin_close" THEN stdinPumps \ {p}
                              ELSE stdinPumps
             /\ child' = IF m.type = "stdin" /\ mine /\ child.alive
                         THEN [child EXCEPT !.stdin = Append(@, m.data)]
                         ELSE IF m.type = "stdin_close" /\ mine
                         THEN [child EXCEPT !.stdinOpen = FALSE]
                         ELSE child
    /\ inbox' = Tail(inbox)
    /\ UNCHANGED <<auth, auditOn, remoteAddr, sent, clientClosed, pc, cur,
                   wire, auditLog, pumpOut, pumpErr, call, listener,
                   disk, op, client, auditFile>>

StdinPumpEOF ==
    /\ inbox = <<>>
    /\ clientClosed
    /\ \E p \in stdinPumps :
          /\ stdinPumps' = stdinPumps \ {p}
          /\ child' = IF child.req = p
                      THEN [child EXCEPT !.stdinOpen = FALSE]
                      ELSE child
    /\ UNCHANGED <<auth, auditOn, remoteAddr, inbox, sent, clientClosed, pc,
                   cur, wire, auditLog, pumpOut, pumpErr, call, listener,
                   disk, op, client, auditFile>>

\* mutant: the audit record of a finished exec always carries exit code 0
ExecExit_AuditZero ==
    /\ pc = "run"
    /\ pumpOut = "done"
    /\ pumpErr = "done"
    /\ ~child.alive
    /\ wire' = Append(wire, ExitRec(child.req, child.code))
    /\ auditLog' = audit(auditLog, auditOn, child.req, remoteAddr,
                         cur.req, 0, "ok")
    /\ child' = NoChild
    /\ pumpOut' = "off"
    /\ pumpErr' = "off"
    /\ pc' = "idle"
    /\ UNCHANGED <<auth, auditOn, remoteAddr, inbox, sent, clientClosed, cur,
                   stdinPumps, call, listener, disk, op, client, auditFile>>

\* mutant: wg.Wait() is missing, so exit is written as soon as the child is
\* gone, with the output goroutines still reading the pipes
ExecExit_NoWait ==
    /\ pc = "run"
    /\ ~child.alive
    /\ wire' = Append(wire, ExitRec(child.req, child.code))
    /\ auditLog' = audit(auditLog, auditOn, child.req, remoteAddr,
                         cur.req, child.code, "ok")
    /\ pc' = "idle"
    /\ UNCHANGED <<auth, auditOn, remoteAddr, inbox, sent, clientClosed, cur,
                   child, pumpOut, pumpErr, stdinPumps, call, listener,
                   disk, op, client, auditFile>>

(***************************************************************************)
(* handleExec after wg.Wait(): cmd.Wait(), the exit record, the audit      *)
(* record, and the return to the read loop.                                *)
(***************************************************************************)
ExecExit ==
    /\ pc = "run"
    /\ pumpOut = "done"
    /\ pumpErr = "done"
    /\ ~child.alive
    /\ wire' = Append(wire, ExitRec(child.req, child.code))
    /\ auditLog' = audit(auditLog, auditOn, child.req, remoteAddr,
                         cur.req, child.code, "ok")
    /\ child' = NoChild
    /\ pumpOut' = "off"
    /\ pumpErr' = "off"
    /\ pc' = "idle"
    /\ UNCHANGED <<auth, auditOn, remoteAddr, inbox, sent, clientClosed, cur,
                   stdinPumps, call, listener,
                   disk, op, client, auditFile>>

(***************************************************************************)
(* The secret store on disk (cmd/credwrap-server/tools.go).  A password is *)
(* a sequence of characters; a keyfile holds one, possibly followed by     *)
(* white space.  A secret mapping is a function from names to values.      *)
(***************************************************************************)
MaxOps == 2       \* secrets commands run one after the other

SecretNames == {"j", "k"}

SecretValues == {"v", "w"}

\* what the user types at a password prompt
TypedTexts == {<<>>, <<"p">>, <<"p", " ">>}

\* what the user types at the confirmation prompt
ConfirmTexts == {<<>>, <<"p">>}

\* what the user types at "File exists. Overwrite? [y/N]"
AnswerTexts == {<<>>, <<"n">>, <<"y">>, <<" ", "Y">>}

RECURSIVE TrimLeft(_)
TrimLeft(s) == IF s # <<>> /\ Head(s) = " " THEN TrimLeft(Tail(s)) ELSE s

RECURSIVE TrimRight(_)
TrimRight(s) ==
    IF s # <<>> /\ s[Len(s)] = " " THEN TrimRight(SubSeq(s, 1, Len(s) - 1))
    ELSE s

\* strings.TrimSpace
TrimSpace(s) == TrimRight(TrimLeft(s))

\* strings.ToLower
LowerOf(c) ==
    CASE c = "Y" -> "y"
      [] c = "A" -> "a"
      [] c = "B" -> "b"
      [] OTHER   -> c

ToLower(s) == [i \in 1..Len(s) |-> LowerOf(s[i])]

\* strings.HasPrefix(strings.ToLower(strings.TrimSpace(response)), "y")
Affirmative(response) ==
    LET t == ToLower(TrimSpace(response)) IN t # <<>> /\ t[1] = "y"

EmptyCreds == [n \in {} |-> "v"]

\* creds[secretName] = string(secretValue)
Put(creds, k, v) ==
    [n \in DOMAIN creds \cup {k} |-> IF n = k THEN v ELSE creds[n]]

\* delete(creds, secretName)
Delete(creds, k) == [n \in DOMAIN creds \ {k} |-> creds[n]]

\* yaml.Marshal of a map[string]string: one "name: value" line per entry,
\* the names in sorted order
NameOrder == <<"j", "k">>

IsKey(creds, n) == n \in DOMAIN creds

\* mutant: the serialization keeps only the first entry
Marshal_FirstOnly(creds) ==
    LET names == SelectSeq(NameOrder, LAMBDA n : IsKey(creds, n))
    IN [i \in 1..(IF names = <<>> THEN 0 ELSE 1) |->
           <<names[i], creds[names[i]]>>]

Marshal(creds) ==
    LET names == SelectSeq(NameOrder, LAMBDA n : IsKey(creds, n))
    IN [i \in 1..Len(names) |-> <<names[i], creds[names[i]]>>]

\* yaml.Unmarshal into a map[string]string
Unmarshal(text) ==
    [n \in {text[i][1] : i \in 1..Len(text)} |->
        text[CHOOSE i \in 1..Len(text) : text[i][1] = n][2]]

\* age.Encrypt with a scrypt recipient: the container opens under the
\* password it was made with and under no other
Encrypt(password, plaintext) ==
    [kind |-> "age", scrypt |-> password, body |-> plaintext]

\* what a failed write leaves behind: the file was truncated when it was
\* opened and holds at most a prefix of the container
Truncated == [kind |-> "partial", scrypt |-> <<>>, body |-> <<>>]

\* age.Decrypt with a scrypt identity
Decrypts(data, password) == data.kind = "age" /\ data.scrypt = password

\* age.NewScryptIdentity / age.NewScryptRecipient refuse the empty password
ScryptRefuses(password) == password = <<>>

NoFile ==
    [exists |-> FALSE, data |-> Truncated, gen |-> 0, mode |-> ""]

\* a credentials file holding the mapping creds under password; gen counts
\* the writes of the file (every encryption has a fresh salt and nonce, so
\* no two writes leave the same bytes)
StoredFile(password, creds, gen) ==
    [exists |-> TRUE, data |-> Encrypt(password, Marshal(creds)),
     gen |-> gen, mode |-> "0600"]

NoKeyfile == [exists |-> FALSE, text |-> <<>>]

Keyfile(text) == [exists |-> TRUE, text |-> text]

(***************************************************************************)
(* The configuration document, a YAML file.  Its text is modelled by what  *)
(* a YAML reader sees in it: the top-level keys other than tools with      *)
(* their values, the tools section if there is one, a mapping from keys to *)
(* entries, and whether the text carries comments.  A key is written plain *)
(* or quoted; a plain key that reads as a number (7) is not a string to    *)
(* YAML.                                                                   *)
(***************************************************************************)
PlainKey(text) == [text |-> text, quoted |-> FALSE]
QuotedKey(text) == [text |-> text, quoted |-> TRUE]

NumberTexts == {"7"}

\* the tag yaml.v3 resolves for a key
ShortTag(key) ==
    IF ~key.quoted /\ key.text \in NumberTexts THEN "int" ELSE "str"

\* the Go value of a key
KeyValue(key) == [tag |-> ShortTag(key), text |-> key.text]

StrKey(name) == [tag |-> "str", text |-> name]

\* the key as Marshal writes it: a string that would read as a number is
\* quoted
KeyText(value) ==
    IF value.tag = "str" /\ value.text \in NumberTexts
    THEN QuotedKey(value.text)
    ELSE PlainKey(value.text)

NoEntries == [k \in {} |-> 0]

NoConfig ==
    [exists |-> FALSE, top |-> NoEntries, hasTools |-> FALSE,
     tools |-> NoEntries, comments |-> FALSE]

\* a file that was opened for writing and whose bytes were not written
EmptyConfig == [NoConfig EXCEPT !.exists = TRUE]

\* yaml.Unmarshal into map[string]interface{}: nil for a document without
\* content; a nested mapping becomes a map[string]interface{} when all its
\* keys are strings and a map[interface{}]interface{} otherwise
UnmarshalConfig(doc) ==
    [nil   |-> DOMAIN doc.top = {} /\ ~doc.hasTools,
     top   |-> doc.top,
     tools |-> IF ~doc.hasTools THEN [kind |-> "absent", m |-> NoEntries]
               ELSE [kind |-> IF \A k \in DOMAIN doc.tools : ShortTag(k) = "str"
                              THEN "stringMap" ELSE "generalMap",
                     m |-> [v \in {KeyValue(k) : k \in DOMAIN doc.tools} |->
                              doc.tools[CHOOSE k \in DOMAIN doc.tools :
                                           KeyValue(k) = v]]]]

\* yaml.Marshal of the map: comments are not part of it
MarshalConfig(cfg) ==
    [exists |-> TRUE, top |-> cfg.top, hasTools |-> cfg.tools.kind # "absent",
     tools |-> [k \in {KeyText(v) : v \in DOMAIN cfg.tools.m} |->
                  cfg.tools.m[CHOOSE v \in DOMAIN cfg.tools.m : KeyText(v) = k]],
     comments |-> FALSE]

NoDisk ==
    [creds |-> NoFile, keyfile |-> NoKeyfile, autoKeyfile |-> NoKeyfile,
     dirKeyfile |-> NoKeyfile, config |-> NoConfig]

\* os.WriteFile(credsPath, data, 0600): the permission bits apply when the
\* file is created; os is what the operating system does with the write
WriteOutcomes == {"ok", "open", "write"}

\* mutant: the plaintext serialization is written instead of the container
WriteFile_Plain(f, data, os) ==
    IF os = "open" THEN [file |-> f, err |-> TRUE, written |-> <<>>]
    ELSE LET bytes == IF os = "ok"
                      THEN [kind |-> "yaml", scrypt |-> <<>>, body |-> data.body]
                      ELSE Truncated
         IN [file |-> [exists |-> TRUE, data |-> bytes, gen |-> f.gen + 1,
                       mode |-> IF f.exists THEN f.mode ELSE "0600"],
             err |-> os # "ok",
             written |-> <<[path |-> "creds", data |-> bytes]>>]

WriteFile(f, data, os) ==
    IF os = "open" THEN [file |-> f, err |-> TRUE, written |-> <<>>]
    ELSE LET bytes == IF os = "ok" THEN data ELSE Truncated
         IN [file |-> [exists |-> TRUE, data |-> bytes, gen |-> f.gen + 1,
                       mode |-> IF f.exists THEN f.mode ELSE "0600"],
             err |-> os # "ok",
             written |-> <<[path |-> "creds", data |-> bytes]>>]

(***************************************************************************)
(* Password acquisition.  in is what the user supplies to one run: the     *)
(* --keyfile argument, what is typed at the prompts, and whether standard  *)
(* input is a terminal at all.                                             *)
(***************************************************************************)
Password(err, password) == [err |-> err, password |-> password]

getPassword(d, in) ==
    IF in.keyfilePath # ""
    THEN IF ~d.keyfile.exists THEN Password("reading keyfile", <<>>)
         ELSE Password("", TrimSpace(d.keyfile.text))
    ELSE IF d.autoKeyfile.exists
    THEN Password("", TrimSpace(d.autoKeyfile.text))
    ELSE IF d.dirKeyfile.exists
    THEN Password("", TrimSpace(d.dirKeyfile.text))
    ELSE IF ~in.tty THEN Password("reading password", <<>>)
    ELSE Password("", in.typed)

getNewPassword(d, in) ==
    IF in.keyfilePath # ""
    THEN IF ~d.keyfile.exists THEN Password("reading keyfile", <<>>)
         ELSE Password("", TrimSpace(d.keyfile.text))
    ELSE IF ~in.tty THEN Password("reading password", <<>>)
    ELSE IF in.typed # in.confirm THEN Password("passwords don't match", <<>>)
    ELSE Password("", in.typed)

(***************************************************************************)
(* The secrets commands.  Each returns the disk it leaves, its error ("" : *)
(* none), the password it used, the mapping it held in memory, what it     *)
(* listed, and the writes it made to files.                                *)
(***************************************************************************)
Ret(d, err, password, creds, out, writes) ==
    [disk |-> d, err |-> err, password |-> password, creds |-> creds,
     out |-> out, writes |-> writes]

Fail(d, err, password) == Ret(d, err, password, EmptyCreds, {}, <<>>)

\* NewScryptIdentity, Decrypt, ReadAll and Unmarshal of the bytes of a file
decryptCredentials(f, password) ==
    IF ScryptRefuses(password)
    THEN [err |-> "creating identity", creds |-> EmptyCreds]
    ELSE IF ~Decrypts(f.data, password)
    THEN [err |-> "decrypting", creds |-> EmptyCreds]
    ELSE [err |-> "", creds |-> Unmarshal(f.data.body)]

\* mutant: the existing mapping is not loaded before the secret is set
addSecret_Fresh(d, key, in) ==
    LET isNew == ~d.creds.exists
        pw    == IF isNew THEN getNewPassword(d, in) ELSE getPassword(d, in)
        old   == IF isNew THEN [err |-> "", creds |-> EmptyCreds]
                 ELSE decryptCredentials(d.creds, pw.password)
        creds == Put(EmptyCreds, key, in.value)
        w     == WriteFile(d.creds, Encrypt(pw.password, Marshal(creds)), in.os)
    IN IF pw.err # "" THEN Fail(d, pw.err, <<>>)
       ELSE IF old.err # "" THEN Fail(d, old.err, pw.password)
       ELSE IF ~in.tty THEN Fail(d, "reading secret", pw.password)
       ELSE IF ScryptRefuses(pw.password)
       THEN Fail(d, "creating recipient", pw.password)
       ELSE Ret([d EXCEPT !.creds = w.file],
                IF w.err THEN "writing file" ELSE "", pw.password, creds, {},
                w.written)

addSecret(d, key, in) ==
    LET isNew == ~d.creds.exists
        pw    == IF isNew THEN getNewPassword(d, in) ELSE getPassword(d, in)
        old   == IF isNew THEN [err |-> "", creds |-> EmptyCreds]
                 ELSE decryptCredentials(d.creds, pw.password)
        creds == Put(old.creds, key, in.value)
        w     == WriteFile(d.creds, Encrypt(pw.password, Marshal(creds)), in.os)
    IN IF pw.err # "" THEN Fail(d, pw.err, <<>>)
       ELSE IF old.err # "" THEN Fail(d, old.err, pw.password)
       ELSE IF ~in.tty THEN Fail(d, "reading secret", pw.password)
       ELSE IF ScryptRefuses(pw.password)
       THEN Fail(d, "creating recipient", pw.password)
       ELSE Ret([d EXCEPT !.creds = w.file],
                IF w.err THEN "writing file" ELSE "", pw.password, creds, {},
                w.written)

listSecrets(d, in) ==
    LET pw  == getPassword(d, in)
        old == decryptCredentials(d.creds, pw.password)
    IN IF ~d.creds.exists THEN Fail(d, "reading file", <<>>)
       ELSE IF pw.err # "" THEN Fail(d, pw.err, <<>>)
       ELSE IF old.err # "" THEN Fail(d, old.err, pw.password)
       ELSE Ret(d, "", pw.password, old.creds, DOMAIN old.creds, <<>>)

\* mutant: the file is rewritten before the name is looked up
removeSecret_WriteFirst(d, key, in) ==
    LET pw    == getPassword(d, in)
        old   == decryptCredentials(d.creds, pw.password)
        creds == Delete(old.creds, key)
        w     == WriteFile(d.creds, Encrypt(pw.password, Marshal(creds)), in.os)
    IN IF ~d.creds.exists THEN Fail(d, "reading file", <<>>)
       ELSE IF pw.err # "" THEN Fail(d, pw.err, <<>>)
       ELSE IF old.err # "" THEN Fail(d, old.err, pw.password)
       ELSE IF key \notin DOMAIN old.creds
       THEN Fail([d EXCEPT !.creds = w.file], "not found", pw.password)
       ELSE Ret([d EXCEPT !.creds = w.file],
                IF w.err THEN "writing" ELSE "", pw.password, creds, {},
                w.written)

removeSecret(d, key, in) ==
    LET pw    == getPassword(d, in)
        old   == decryptCredentials(d.creds, pw.password)
        creds == Delete(old.creds, key)
        w     == WriteFile(d.creds, Encrypt(pw.password, Marshal(creds)), in.os)
    IN IF ~d.creds.exists THEN Fail(d, "reading file", <<>>)
       ELSE IF pw.err # "" THEN Fail(d, pw.err, <<>>)
       ELSE IF old.err # "" THEN Fail(d, old.err, pw.password)
       ELSE IF key \notin DOMAIN old.creds
       THEN Fail(d, "not found", pw.password)
       ELSE Ret([d EXCEPT !.creds = w.file],
                IF w.err THEN "writing" ELSE "", pw.password, creds, {},
                w.written)

\* initCredentials without the overwrite question
initCredentials_NoConfirm(d, in) ==
    LET pw == getNewPassword(d, in)
        w  == WriteFile(d.creds, Encrypt(pw.password, Marshal(EmptyCreds)),
                        in.os)
    IN IF pw.err # "" THEN Fail(d, pw.err, <<>>)
       ELSE IF ScryptRefuses(pw.password) THEN Fail(d, "panic", pw.password)
       ELSE Ret([d EXCEPT !.creds = w.file],
                IF w.err THEN "writing" ELSE "", pw.password, EmptyCreds, {},
                w.written)

\* the error of NewScryptRecipient is dropped, so with an empty password
\* age.Encrypt is given a nil recipient and the command ends in a panic
\* before the write
initCredentials(d, in) ==
    LET pw == getNewPassword(d, in)
        w  == WriteFile(d.creds, Encrypt(pw.password, Marshal(EmptyCreds)),
                        in.os)
    IN IF d.creds.exists /\ ~Affirmative(in.answer)
       THEN Fail(d, "aborted", <<>>)
       ELSE IF pw.err # "" THEN Fail(d, pw.err, <<>>)
       ELSE IF ScryptRefuses(pw.password) THEN Fail(d, "panic", pw.password)
       ELSE Ret([d EXCEPT !.creds = w.file],
                IF w.err THEN "writing" ELSE "", pw.password, EmptyCreds, {},
                w.written)

\* config.LoadCredentialsEncrypted
LoadCredentialsEncrypted(f, password) ==
    IF ~f.exists
    THEN [err |-> "reading encrypted credentials", creds |-> EmptyCreds]
    ELSE decryptCredentials(f, password)

\* the daemon's start with -encrypted: the password comes from -keyfile or
\* from the prompt, and the store is loaded into memory
mainLoad(d, in) ==
    LET password == IF in.keyfilePath # "" THEN TrimSpace(d.keyfile.text)
                    ELSE in.typed
        l == LoadCredentialsEncrypted(d.creds, password)
    IN IF in.keyfilePath # "" /\ ~d.keyfile.exists
       THEN Fail(d, "reading keyfile", <<>>)
       ELSE IF in.keyfilePath = "" /\ ~in.tty
       THEN Fail(d, "reading password", <<>>)
       ELSE Ret(d, l.err, password, l.creds, {}, <<>>)

(***************************************************************************)
(* The tools commands.  in is what one run is given: what kind of file the *)
(* source path names, the options, whether /usr/local/bin is writable, the *)
(* --env names, and what the operating system does with the write of the   *)
(* configuration.                                                          *)
(***************************************************************************)
\* envToSecretName: ENV_VAR_NAME to env-var-name
envToSecretName(env) ==
    ToLower([i \in 1..Len(env) |-> IF env[i] = "_" THEN "-" ELSE env[i]])

\* os.WriteFile(configPath, newData, 0644)
WriteConfig(doc, new, os) ==
    IF os = "open" THEN [config |-> doc, err |-> "writing config"]
    ELSE IF os = "write" THEN [config |-> EmptyConfig, err |-> "writing config"]
    ELSE [config |-> new, err |-> ""]

\* a tools section that is not a map[string]interface{} (none, or one with
\* a key that is not a string) is replaced by an empty one; the assignment
\* into the nil map of a document without content panics
addToolToConfig(doc, toolName, toolPath, credentialEnvs, os) ==
    LET cfg   == UnmarshalConfig(doc)
        ok    == cfg.tools.kind = "stringMap"
        tools == IF ok THEN cfg.tools.m ELSE NoEntries
        toolEntry ==
            [path |-> toolPath, pass_args |-> TRUE,
             credentials |->
                [i \in 1..Len(credentialEnvs) |->
                    [env |-> credentialEnvs[i],
                     secret |-> envToSecretName(credentialEnvs[i])]]]
        new   == [cfg EXCEPT !.tools =
                     [kind |-> "stringMap",
                      m |-> Put(tools, StrKey(toolName), toolEntry)]]
    IN IF ~doc.exists THEN [config |-> doc, err |-> "reading config"]
       ELSE IF cfg.nil /\ ~ok THEN [config |-> doc, err |-> "panic"]
       ELSE WriteConfig(doc, MarshalConfig(new), os)

SourcePath == [dir |-> "/src", base |-> "tool"]

toolsAdd(d, toolName, in) ==
    LET destPath  == [dir |-> "/usr/local/bin", base |-> SourcePath.base]
        finalPath == IF in.noCopy THEN SourcePath ELSE destPath
        installed == IF in.noCopy THEN <<>>
                     ELSE <<[path |-> destPath,
                             data |-> IF in.symlink THEN "symlink" ELSE "copy"]>>
        r == addToolToConfig(d.config, toolName, finalPath, in.envs, in.os)
    IN IF in.source = "missing" THEN Fail(d, "source not found", <<>>)
       ELSE IF in.source = "dir" THEN Fail(d, "source is a directory", <<>>)
       ELSE IF ~in.noCopy /\ ~in.destWritable THEN Fail(d, "cannot write", <<>>)
       ELSE Ret([d EXCEPT !.config = r.config], r.err, <<>>, EmptyCreds, {},
                installed)

\* the typed read of toolsList takes every key as the name it spells
toolsList(d) ==
    IF ~d.config.exists THEN Fail(d, "reading config", <<>>)
    ELSE Ret(d, "", <<>>, EmptyCreds,
             {k.text : k \in DOMAIN d.config.tools}, <<>>)

toolsRemove(d, toolName, os) ==
    LET cfg == UnmarshalConfig(d.config)
        new == [cfg EXCEPT !.tools.m = Delete(@, StrKey(toolName))]
        w   == WriteConfig(d.config, MarshalConfig(new), os)
    IN IF ~d.config.exists THEN Fail(d, "reading config", <<>>)
       ELSE IF cfg.tools.kind # "stringMap"
       THEN Fail(d, "no tools section in config", <<>>)
       ELSE IF StrKey(toolName) \notin DOMAIN cfg.tools.m
       THEN Fail(d, "not found in config", <<>>)
       ELSE Ret([d EXCEPT !.config = w.config], w.err, <<>>, EmptyCreds, {},
                <<>>)

NoOp ==
    [n |-> 0, cmd |-> "", key |-> "", value |-> "", keyfilePath |-> "",
     answer |-> <<>>, password |-> <<>>, err |-> "", before |-> NoFile,
     config |-> NoConfig, creds |-> EmptyCreds, out |-> {}, writes |-> <<>>]

(***************************************************************************)
(* The daemon's signal handler (main): srv.Stop() closes the listener and  *)
(* the audit file, then os.Exit(0) ends the process and with it every      *)
(* goroutine, connection and pipe end the daemon holds.  A child process   *)
(* is not part of the daemon's process and is left as it is.               *)
(***************************************************************************)
\* mutant: the running child is killed before the process exits
Stop_KillChild ==
    /\ pc # "exited"
    /\ listener' = "closed"
    /\ pc' = "exited"
    /\ pumpOut' = "off"
    /\ pumpErr' = "off"
    /\ stdinPumps' = {}
    /\ child' = [child EXCEPT !.stdinOpen = FALSE, !.alive = FALSE]
    /\ UNCHANGED <<auth, auditOn, remoteAddr, inbox, sent, clientClosed, cur,
                   wire, auditLog, call, disk, op, client, auditFile>>

Stop ==
    /\ pc # "exited"
    /\ listener' = "closed"
    /\ pc' = "exited"
    /\ pumpOut' = "off"
    /\ pumpErr' = "off"
    /\ stdinPumps' = {}
    /\ child' = [child EXCEPT !.stdinOpen = FALSE]
    /\ UNCHANGED <<auth, auditOn, remoteAddr, inbox, sent, clientClosed, cur,
                   wire, auditLog, call, disk, op, client, auditFile>>

(***************************************************************************)
(* The session specification: one connection of a running daemon.          *)
(***************************************************************************)
AuthConfig(tokens, ips, nodes, requireToken) ==
    [Tokens |-> tokens, AllowedIPs |-> ips, TailscaleNodes |-> nodes,
     RequireToken |-> requireToken]

Addr(n) == IP(n) \o <<":", "9">>
Addr6(n) == <<"[">> \o IP6(n) \o <<"]", ":", "9">>

\* the daemons and peers of the session specification
SessionSetups ==
    { <<AuthConfig({"T"}, {CIDR(0, 1)}, {"n1"}, TRUE), Addr(1), TRUE>>,
      <<AuthConfig({"T"}, {}, {"n1"}, FALSE), Addr(2), TRUE>>,
      <<AuthConfig({"T"}, {}, {"n1"}, FALSE), Addr(2), FALSE>> }

NoCall == [fn |-> "none"]

\* no caller process is modelled: records come from any program
NoClient == [pc |-> "none"]

\* no session is inside Server.audit and nothing has been written
NoAuditFile == [data |-> <<>>, mu |-> 0, at |-> <<>>, entry |-> <<>>]

NoExec ==
    [id |-> 0, req |-> [type |-> "exec", token |-> "", tool |-> "", args |-> <<>>,
                        env |-> {}],
     authOk |-> FALSE, reached |-> "", env |-> <<>>]

SessionInit ==
    /\ inbox = <<>>
    /\ sent = 0
    /\ clientClosed = FALSE
    /\ pc = "idle"
    /\ cur = NoExec
    /\ wire = <<>>
    /\ auditLog = <<>>
    /\ child = NoChild
    /\ pumpOut = "off"
    /\ pumpErr = "off"
    /\ stdinPumps = {}
    /\ client = NoClient
    /\ auditFile = NoAuditFile

Init ==
    /\ \E s \in SessionSetups :
          auth = s[1] /\ remoteAddr = s[2] /\ auditOn = s[3]
    /\ call = NoCall
    /\ listener = "open"
    /\ disk = NoDisk
    /\ op = NoOp
    /\ SessionInit

Next ==
    \/ ClientSend
    \/ ClientClose
    \/ ReadOther
    \/ ReadExec
    \/ ReadEOF
    \/ ChildWriteOut
    \/ ChildWriteErr
    \/ ChildExit
    \/ PumpStdout
    \/ PumpStderr
    \/ StdinPumpRead
    \/ StdinPumpEOF
    \/ ExecExit

Spec == Init /\ [][Next]_vars

(***************************************************************************)
(* The output specification: one exec whose child writes lines of any      *)
(* length.                                                                 *)
(***************************************************************************)
NextOutput ==
    \/ ClientSendExec
    \/ ReadExec
    \/ ChildWriteOut
    \/ ChildWriteErr
    \/ ChildWriteLong
    \/ ChildExit
    \/ PumpStdout
    \/ PumpStderr
    \/ ExecExit

SpecOutput == Init /\ [][NextOutput]_vars

(***************************************************************************)
(* The credwrap caller process: main of the client command, Client.Exec    *)
(* and Client.ExecInteractive.  It writes one exec record and reads the    *)
(* daemon's records one at a time; with -i a goroutine forwards its own    *)
(* standard input.  Own stdin is a sequence of pieces, each a line         *)
(* (terminated by a newline) or, last, text that ends at end of file       *)
(* without a newline.  status is the exit status the process ends with,    *)
(* -1 while it runs.                                                       *)
(***************************************************************************)
Line(k) == [data |-> k, nl |-> TRUE]
Rest(k) == [data |-> k, nl |-> FALSE]

ClientStdins == {<<>>, <<Line(1)>>, <<Rest(1)>>, <<Line(1), Rest(2)>>}

NewClient(mode, stdin) ==
    [pc |-> "reading", mode |-> mode, read |-> 0, status |-> -1, diag |-> "",
     cause |-> "", stdout |-> <<>>, stderr |-> <<>>, input |-> stdin,
     stdin |-> stdin, pump |-> IF mode = "interactive" THEN "run" ELSE "off",
     emitted |-> <<>>]

\* os.Exit(code): the status a parent sees is the low eight bits
ExitStatus(code) == code % 256

\* the process ends: its goroutines end with it and the kernel closes the
\* connection
Exited(c, status, diag, cause) ==
    [c EXCEPT !.pc = "exited", !.status = status, !.diag = diag,
              !.cause = cause, !.pump = "off"]

\* main up to the first read: the exec record is written, the stdin
\* goroutine is started
ClientStart ==
    /\ client = NoClient
    /\ ~clientClosed
    /\ sent = 0
    /\ \E mode \in {"exec", "interactive"}, stdin \in ClientStdins :
          /\ mode = "exec" => stdin = <<>>
          /\ client' = NewClient(mode, stdin)
    /\ inbox' = <<[type |-> "exec"]>>
    /\ sent' = 1
    /\ UNCHANGED <<auth, auditOn, remoteAddr, clientClosed, pc, cur, wire,
                   auditLog, child, pumpOut, pumpErr, stdinPumps, call,
                   listener, disk, op, auditFile>>

\* one iteration of the read loop of Exec or ExecInteractive, and what main
\* does with the result: os.Exit(exitCode), or log.Fatalf, which prints and
\* calls os.Exit(1)
ClientRecv ==
    /\ client.pc = "reading"
    /\ client.read < Len(wire)
    /\ LET rec == wire[client.read + 1]
           c   == [client EXCEPT !.read = @ + 1]
       IN /\ client' =
               IF rec.type = "stdout"
               THEN [c EXCEPT !.stdout = Append(@, rec.data)]
               ELSE IF rec.type = "stderr"
               THEN [c EXCEPT !.stderr = Append(@, rec.data)]
               ELSE IF rec.type = "exit"
               THEN Exited(c, ExitStatus(rec.code), "", "exit")
               ELSE IF rec.type = "error"
               THEN Exited(c, 1, "Exec failed: server error", "error")
               ELSE c
          /\ clientClosed' = (rec.type \in {"exit", "error"})
    /\ UNCHANGED <<auth, auditOn, remoteAddr, inbox, sent, pc, cur, wire,
                   auditLog, child, pumpOut, pumpErr, stdinPumps, call,
                   listener, disk, op, auditFile>>

\* the transport aborts: reader.ReadBytes returns an error, Exec returns
\* (-1, err) and main ends in log.Fatalf
ClientTransportAbort ==
    /\ client.pc = "reading"
    /\ client' = Exited(client, 1, "Exec failed: connection", "abort")
    /\ clientClosed' = TRUE
    /\ UNCHANGED <<auth, auditOn, remoteAddr, inbox, sent, pc, cur, wire,
                   auditLog, child, pumpOut, pumpErr, stdinPumps, call,
                   listener, disk, op, auditFile>>

\* one iteration of the stdin goroutine of ExecInteractive: ReadString
\* gives a line, or an error together with whatever text came before the
\* end of file, and that text is not looked at
ClientStdinRead ==
    /\ client.pc = "reading"
    /\ client.pump = "run"
    /\ inbox = <<>>
    /\ sent < MaxSend
    /\ LET line == client.stdin # <<>> /\ Head(client.stdin).nl
           m == IF line
                THEN [type |-> "stdin", data |-> Head(client.stdin).data]
                ELSE [type |-> "stdin_close"]
       IN /\ client' = [client EXCEPT
                           !.stdin = IF line THEN Tail(@) ELSE <<>>,
                           !.pump = IF line THEN "run" ELSE "done",
                           !.emitted = Append(@, m)]
          /\ inbox' = Append(inbox, m)
    /\ sent' = sent + 1
    /\ UNCHANGED <<auth, auditOn, remoteAddr, clientClosed, pc, cur, wire,
                   auditLog, child, pumpOut, pumpErr, stdinPumps, call,
                   listener, disk, op, auditFile>>

NextClient ==
    \/ ClientStart
    \/ ClientRecv
    \/ ClientTransportAbort
    \/ ClientStdinRead
    \/ ReadOther
    \/ ReadExec
    \/ ReadEOF
    \/ ChildWriteOut
    \/ ChildWriteErr
    \/ ChildExit
    \/ PumpStdout
    \/ PumpStderr
    \/ StdinPumpRead
    \/ StdinPumpEOF
    \/ ExecExit

SpecClient == Init /\ [][NextClient]_vars

(***************************************************************************)
(* The dispatch specification: one exec record, with every combination of  *)
(* its fields, on a connection to a daemon with any authorization policy.  *)
(***************************************************************************)
AuthConfigs ==
    { AuthConfig(t, i, n, r) :
        t \in {{}, {"T"}}, i \in {{}, {CIDR(0, 1)}}, n \in {{}, {"n1"}},
        r \in BOOLEAN }

InitDispatch ==
    /\ auth \in AuthConfigs
    /\ remoteAddr \in {Addr(1), Addr(2)}
    /\ auditOn \in BOOLEAN
    /\ call = NoCall
    /\ listener = "open"
    /\ disk = NoDisk
    /\ op = NoOp
    /\ SessionInit

NextDispatch ==
    \/ ClientSendExec
    \/ DispatchExec
    \/ ChildWriteOut
    \/ ChildWriteErr
    \/ ChildExit
    \/ PumpStdout
    \/ PumpStderr
    \/ ExecExit

SpecDispatch == InitDispatch /\ [][NextDispatch]_vars

(***************************************************************************)
(* The shutdown specification: one exec on a connection of a daemon that   *)
(* receives SIGINT or SIGTERM at any moment.                               *)
(***************************************************************************)
NextShutdown ==
    \/ ClientSendExec
    \/ ReadExec
    \/ ChildWriteOut
    \/ ChildWriteErr
    \/ ChildExit
    \/ PumpStdout
    \/ PumpStderr
    \/ ExecExit
    \/ Stop

SpecShutdown == Init /\ [][NextShutdown]_vars

(***************************************************************************)
(* The function specification: one application of Tool.ValidateArgs or of  *)
(* Server.authenticate to inputs drawn from bounded sets.                  *)
(***************************************************************************)
FnTools ==
    [Path : {"/bin/tool"}, Credentials : {<<>>}, PassArgs : BOOLEAN,
     ArgsPattern : PatternTexts \cup {<<>>}]

FnArgs == VectorsUpTo(MaxArgs, StringsUpTo(MaxArgLen))

FnAuthConfigs ==
    { AuthConfig(t, i, n, r) :
        t \in SUBSET {"T", ""}, i \in {{}, {CIDR(0, 1)}, {IP(2)}},
        n \in SUBSET {"n1", ""}, r \in BOOLEAN }

FnTokens == {"T", "X", ""}

ValidateCalls ==
    [fn : {"ValidateArgs"}, tool : FnTools, args : FnArgs, done : {FALSE},
     out : {NoError}]

AuthCalls ==
    [fn : {"authenticate"}, token : FnTokens, nodeID : WhoisResults,
     done : {FALSE}, out : {FALSE}]

InitFn ==
    /\ \/ /\ call \in ValidateCalls
          /\ auth = AuthConfig({}, {}, {}, FALSE)
          /\ remoteAddr = Addr(1)
       \/ /\ call \in AuthCalls
          /\ auth \in FnAuthConfigs
          /\ remoteAddr \in {Addr(1), Addr(2)}
    /\ auditOn = FALSE
    /\ listener = "open"
    /\ disk = NoDisk
    /\ op = NoOp
    /\ SessionInit

ApplyValidateArgs ==
    /\ call.fn = "ValidateArgs"
    /\ ~call.done
    /\ call' = [call EXCEPT !.done = TRUE,
                            !.out = ValidateArgs(call.tool, call.args)]
    /\ UNCHANGED <<auth, auditOn, remoteAddr, sessionVars, listener, disk, op, auditFile>>

ApplyAuthenticate ==
    /\ call.fn = "authenticate"
    /\ ~call.done
    /\ call' = [call EXCEPT !.done = TRUE,
                            !.out = authenticate(auth, call.token, remoteAddr,
                                                 call.nodeID)]
    /\ UNCHANGED <<auth, auditOn, remoteAddr, sessionVars, listener, disk, op, auditFile>>

NextFn ==
    \/ ApplyValidateArgs
    \/ ApplyAuthenticate

SpecFn == InitFn /\ [][NextFn]_vars

(***************************************************************************)
(* The peer specification: one application of extractIP, of matchIP or of  *)
(* the allowlist loop of Server.authenticate to texts drawn from bounded   *)
(* sets.                                                                   *)
(***************************************************************************)
MaxAddrLen == 4

TextsUpTo(n, alphabet) == UNION {[1..k -> alphabet] : k \in 0..n}

\* the spellings of the address n of a family
Spellings(family, n) ==
    IF family = 4 THEN {IP(n)} ELSE {IP6(n), <<"0">> \o IP6(n)}

AddressTexts == UNION {Spellings(f, n) : f \in {4, 6}, n \in 0..3}

BlockTexts ==
    {a \o <<"/", c>> : a \in AddressTexts, c \in {"0", "1", "2", "3"}}

HostTexts ==
    AddressTexts \cup {<<>>, <<"x">>, <<"1", "x">>, <<"[", "1", "]">>}

EntryTexts ==
    HostTexts \cup BlockTexts
              \cup {<<"/", "1">>, <<"1", "/">>, <<"x", "/", "1">>,
                    <<"1", "/", "x">>, <<"1", "/", "1", "1">>}

\* what RemoteAddr().String() gives for a TCP peer, with the peer's host
PeerAddrs ==
    {[addr |-> Addr(n), host |-> IP(n)] : n \in 0..3}
    \cup {[addr |-> Addr6(n), host |-> IP6(n)] : n \in 0..3}

AddrTexts ==
    TextsUpTo(MaxAddrLen, {"1", ":", "[", "]"})
    \cup {p.addr : p \in PeerAddrs}

Allowlists ==
    {{}} \cup {{e} : e \in EntryTexts}
         \cup {{CIDR(0, 1), IP(3)}, {IP6(1), <<"x">>}}

InitPeer ==
    /\ \/ /\ call \in [fn : {"extractIP"}, addr : AddrTexts, done : {FALSE},
                       out : {<<>>}]
          /\ auth = AuthConfig({}, {}, {}, FALSE)
          /\ remoteAddr = Addr(1)
       \/ /\ call \in [fn : {"matchIP"}, clientIP : HostTexts,
                       allowed : EntryTexts, done : {FALSE}, out : {FALSE}]
          /\ auth = AuthConfig({}, {}, {}, FALSE)
          /\ remoteAddr = Addr(1)
       \/ /\ call = [fn |-> "ipValid", done |-> FALSE, out |-> FALSE]
          /\ auth \in {AuthConfig({}, i, {}, FALSE) : i \in Allowlists}
          /\ remoteAddr \in {p.addr : p \in PeerAddrs}
    /\ auditOn = FALSE
    /\ listener = "open"
    /\ disk = NoDisk
    /\ op = NoOp
    /\ SessionInit

ApplyExtractIP ==
    /\ call.fn = "extractIP"
    /\ ~call.done
    /\ call' = [call EXCEPT !.done = TRUE, !.out = extractIP(call.addr)]
    /\ UNCHANGED <<auth, auditOn, remoteAddr, sessionVars, listener, disk, op, auditFile>>

ApplyMatchIP ==
    /\ call.fn = "matchIP"
    /\ ~call.done
    /\ call' = [call EXCEPT !.done = TRUE,
                            !.out = matchIP(call.clientIP, call.allowed)]
    /\ UNCHANGED <<auth, auditOn, remoteAddr, sessionVars, listener, disk, op, auditFile>>

ApplyIPValid ==
    /\ call.fn = "ipValid"
    /\ ~call.done
    /\ call' = [call EXCEPT !.done = TRUE, !.out = ipValid(auth, remoteAddr)]
    /\ UNCHANGED <<auth, auditOn, remoteAddr, sessionVars, listener, disk, op, auditFile>>

NextPeer ==
    \/ ApplyExtractIP
    \/ ApplyMatchIP
    \/ ApplyIPValid

SpecPeer == InitPeer /\ [][NextPeer]_vars

(***************************************************************************)
(* The store specification: secrets commands and the daemon's load, run    *)
(* one after the other on one credentials path, starting from any file the *)
(* commands can have left there.                                           *)
(***************************************************************************)
\* the mappings of the files the specification starts from
Mappings ==
    {EmptyCreds, Put(EmptyCreds, "j", "v"), Put(EmptyCreds, "k", "w"),
     Put(Put(EmptyCreds, "j", "v"), "k", "w")}

StorePasswords == {<<"p">>, <<"q">>}

Inputs(typeds, confirms, values, answers, oss) ==
    [keyfilePath : {"", "kf"}, typed : typeds, confirm : confirms,
     value : values, answer : answers, os : oss, tty : BOOLEAN]

\* a credentials file whose permissions were widened after it was written
ReadableFile ==
    [StoredFile(<<"p">>, Put(EmptyCreds, "j", "v"), 0) EXCEPT !.mode = "0644"]

InitStore ==
    /\ disk \in
         [creds : {NoFile} \cup
                  {StoredFile(pw, m, 0) : pw \in StorePasswords, m \in Mappings}
                  \cup {ReadableFile},
          keyfile : {NoKeyfile, Keyfile(<<"p", " ">>), Keyfile(<<"q">>)},
          autoKeyfile : {NoKeyfile, Keyfile(<<"q">>)},
          dirKeyfile : {NoKeyfile, Keyfile(<<"p">>)},
          config : {NoConfig}]
    /\ op = NoOp
    /\ auth = AuthConfig({}, {}, {}, FALSE)
    /\ remoteAddr = Addr(1)
    /\ auditOn = FALSE
    /\ call = NoCall
    /\ listener = "closed"
    /\ SessionInit

\* one run of a command with arguments key and in, and result r
RunOp(cmd, key, value, in, r) ==
    /\ op.n < MaxOps
    /\ op' = [n |-> op.n + 1, cmd |-> cmd, key |-> key, value |-> value,
              keyfilePath |-> in.keyfilePath, answer |-> in.answer,
              password |-> r.password, err |-> r.err, before |-> disk.creds,
              config |-> disk.config, creds |-> r.creds, out |-> r.out,
              writes |-> r.writes]
    /\ disk' = r.disk
    /\ UNCHANGED <<auth, auditOn, remoteAddr, sessionVars, call, listener, auditFile>>

SecretsInit ==
    \E in \in Inputs(TypedTexts, ConfirmTexts, {"v"}, AnswerTexts, WriteOutcomes) :
        RunOp("init", "", "", in, initCredentials(disk, in))

SecretsAdd ==
    \E key \in SecretNames,
       in \in Inputs(TypedTexts, ConfirmTexts, SecretValues, {<<>>}, WriteOutcomes) :
        RunOp("add", key, in.value, in, addSecret(disk, key, in))

SecretsList ==
    \E in \in Inputs(TypedTexts, {<<>>}, {"v"}, {<<>>}, {"ok"}) :
        RunOp("list", "", "", in, listSecrets(disk, in))

SecretsRm ==
    \E key \in SecretNames,
       in \in Inputs(TypedTexts, {<<>>}, {"v"}, {<<>>}, WriteOutcomes) :
        RunOp("rm", key, "", in, removeSecret(disk, key, in))

DaemonLoad ==
    \E in \in Inputs(TypedTexts, {<<>>}, {"v"}, {<<>>}, {"ok"}) :
        RunOp("load", "", "", in, mainLoad(disk, in))

NextStore ==
    \/ SecretsInit
    \/ SecretsAdd
    \/ SecretsList
    \/ SecretsRm
    \/ DaemonLoad

SpecStore == InitStore /\ [][NextStore]_vars

(***************************************************************************)
(* The tools specification: tools commands run one after the other on one  *)
(* configuration document, starting from any document an administrator     *)
(* can have written.                                                       *)
(***************************************************************************)
ToolNames == {"a", "b", "7"}

\* entries as an administrator writes them, one with a field the program
\* does not know
Entries == {[path |-> "/p"], [path |-> "/p", note |-> "n"]}

ToolSections ==
    UNION {[{PlainKey(n) : n \in ns} -> Entries] : ns \in SUBSET ToolNames}

Tops == {[k \in {"server"} |-> "s"], [k \in {"server", "x"} |-> "s"]}

Configs ==
    {NoConfig, EmptyConfig}
    \cup [exists : {TRUE}, top : Tops, hasTools : {TRUE}, tools : ToolSections,
          comments : BOOLEAN]
    \cup [exists : {TRUE}, top : Tops, hasTools : {FALSE}, tools : {NoEntries},
          comments : BOOLEAN]

ToolsInputs(sources, switches, envs, oss) ==
    [source : sources, noCopy : switches, symlink : switches,
     destWritable : {TRUE} \cup switches, envs : envs, os : oss,
     keyfilePath : {""}, answer : {<<>>}]

\* runs of tools add: every combination of the options with a source that
\* is a file and a write that works, and each failure once
AddInputs ==
    ToolsInputs({"file"}, BOOLEAN, {<<>>, <<<<"A", "_", "B">>>>}, {"ok"})
    \cup ToolsInputs({"file", "missing", "dir"}, {TRUE}, {<<>>}, WriteOutcomes)

InitTools ==
    /\ disk \in {[NoDisk EXCEPT !.config = c] : c \in Configs}
    /\ op = NoOp
    /\ auth = AuthConfig({}, {}, {}, FALSE)
    /\ remoteAddr = Addr(1)
    /\ auditOn = FALSE
    /\ call = NoCall
    /\ listener = "closed"
    /\ SessionInit

ToolsAdd ==
    \E name \in ToolNames, in \in AddInputs :
        RunOp("tools add", name, "", in, toolsAdd(disk, name, in))

ToolsList ==
    \E in \in ToolsInputs({"file"}, {TRUE}, {<<>>}, {"ok"}) :
        RunOp("tools list", "", "", in, toolsList(disk))

ToolsRemove ==
    \E name \in ToolNames,
       in \in ToolsInputs({"file"}, {TRUE}, {<<>>}, WriteOutcomes) :
        RunOp("tools rm", name, "", in, toolsRemove(disk, name, in.os))

NextTools ==
    \/ ToolsAdd
    \/ ToolsList
    \/ ToolsRemove

SpecTools == InitTools /\ [][NextTools]_vars

(***************************************************************************)
(* A store command next to a reader.  os.WriteFile is OpenFile with        *)
(* O_WRONLY|O_CREATE|O_TRUNC, then Write, then Close, on the credentials   *)
(* path itself: between the open and the write the path names an empty     *)
(* file.  WriteFileOpen is a command run up to and including that open,    *)
(* WriteFileData the rest of it; a daemon starting or a list reads the     *)
(* path at any moment.                                                     *)
(***************************************************************************)
StoreCommands == {"init", "add", "rm"}

StoreCommand(cmd, d, key, in) ==
    CASE cmd = "init" -> initCredentials(d, in)
      [] cmd = "add"  -> addSecret(d, key, in)
      [] cmd = "rm"   -> removeSecret(d, key, in)

WriteFileOpen ==
    \E cmd \in StoreCommands, key \in SecretNames,
       in \in Inputs({<<"p">>}, {<<"p">>}, SecretValues, {<<"y">>},
                     {"ok", "write"}) :
        LET r == StoreCommand(cmd, disk, key, in)
        IN /\ call = NoCall
           /\ op.n < MaxOps
           /\ r.writes # <<>>
           /\ call' = [fn |-> "WriteFile", cmd |-> cmd, key |-> key, in |-> in,
                       r |-> r, before |-> disk.creds]
           /\ disk' = [disk EXCEPT !.creds =
                          [exists |-> TRUE, data |-> Truncated,
                           gen |-> disk.creds.gen,
                           mode |-> IF disk.creds.exists
                                    THEN disk.creds.mode ELSE "0600"]]
           /\ UNCHANGED <<auth, auditOn, remoteAddr, sessionVars, listener, op, auditFile>>

WriteFileData ==
    /\ call # NoCall
    /\ call.fn = "WriteFile"
    /\ op' = [n |-> op.n + 1, cmd |-> call.cmd, key |-> call.key,
              value |-> call.in.value, keyfilePath |-> call.in.keyfilePath,
              answer |-> call.in.answer, password |-> call.r.password,
              err |-> call.r.err, before |-> call.before,
              config |-> disk.config, creds |-> call.r.creds,
              out |-> call.r.out,
              writes |-> call.r.writes]
    /\ disk' = call.r.disk
    /\ call' = NoCall
    /\ UNCHANGED <<auth, auditOn, remoteAddr, sessionVars, listener, auditFile>>

NextWrite ==
    \/ WriteFileOpen
    \/ WriteFileData
    \/ SecretsList
    \/ DaemonLoad

\* the stores of InitStore, with the password in the --keyfile file only
InitWrite ==
    /\ InitStore
    /\ disk.keyfile = Keyfile(<<"p", " ">>)
    /\ ~disk.autoKeyfile.exists
    /\ ~disk.dirKeyfile.exists

SpecWrite == InitWrite /\ [][NextWrite]_vars

(***************************************************************************)
(*                              PROPERTIES                                 *)
(***************************************************************************)

\* the records of the window that belong to the latest exec
OfCur(r) == r.req = cur.id

CurRecs == SelectSeq(wire, OfCur)

Types(recs) == [i \in 1..Len(recs) |-> recs[i].type]

\* the latest handleExec call got past authorization, lookup and validation
CurTool == Tools[cur.req.tool]

(* C1: for an exec whose child the daemon spawned, the records written for  *)
(* it are one started, then stdout/stderr records, then one exit: started   *)
(* is first, exit is last and is there exactly when handleExec has          *)
(* returned, and nothing but output lies between them.                      *)
C1_WireOrder ==
    cur.reached = "started" =>
        /\ CurRecs # <<>>
        /\ CurRecs[1].type = "started"
        /\ \A i \in 2..Len(CurRecs) :
              CurRecs[i].type \in {"stdout", "stderr", "exit"}
        /\ \A i \in 1..Len(CurRecs) :
              CurRecs[i].type = "exit" => i = Len(CurRecs)
        /\ (pc = "run") <=> (CurRecs[Len(CurRecs)].type # "exit")

C1_Witness ==
    /\ cur.reached = "started"
    /\ pc = "idle"
    /\ stdinPumps # {}
    /\ Types(CurRecs) = <<"started", "stderr", "stdout", "exit">>

(* C2: when the daemon answers an exec with an error record, that record is *)
(* the only record written for the request (no started, stdout, stderr or   *)
(* exit, no second error), no child exists, and the session is back in the  *)
(* read loop with the connection open.                                      *)
C2_ErrorOnly ==
    \A i \in 1..Len(wire) :
        (cur.id > 0 /\ wire[i].req = cur.id /\ wire[i].type = "error") =>
            /\ CurRecs = <<wire[i]>>
            /\ child = NoChild
            /\ pumpOut = "off" /\ pumpErr = "off"
            /\ pc = "idle"

C2_Witness ==
    /\ cur.reached = "pipes"
    /\ Types(CurRecs) = <<"error">>
    /\ pc = "idle"

(* C3: the decision of authenticate is the reference rule over token_ok,    *)
(* ip_ok, node_ok, require_token and the emptiness of the three lists.      *)
RefDecision(tok, ip, node, requireToken, hasTokens, hasIPs, hasNodes) ==
    IF requireToken \/ (hasTokens /\ ~hasIPs /\ ~hasNodes)
    THEN tok /\ ip
    ELSE tok \/ (ip /\ hasIPs) \/ node

TokenOk == call.token \in auth.Tokens

IpOk ==
    \/ auth.AllowedIPs = {}
    \/ \E e \in auth.AllowedIPs : matchIP(extractIP(remoteAddr), e)

NodeOk == call.nodeID \in auth.TailscaleNodes

C4_DeniedOpaque ==
    (cur.id > 0 /\ ~cur.authOk) =>
        /\ wire = <<ErrorRec(cur.id, [text |-> "authentication failed"])>>
        /\ cur.reached = "auth"
        /\ child = NoChild
        /\ pc = "idle"

C4_Witness ==
    /\ cur.id > 0
    /\ ~cur.authOk
    /\ cur.req.token = "T"
    /\ cur.req.tool = "nope"
    /\ wire # <<>>

(* C5: for an exec that reached spawn, each credential binding (NAME, S)    *)
(* of the tool has NAME set to the SecretStore value of S in the            *)
(* environment of the child.                                                *)
C5_CredentialEnv ==
    cur.reached = "started" =>
        \A i \in 1..Len(CurTool.Credentials) :
            CurTool.Credentials[i].Env # "" =>
                Getenv(cur.env, CurTool.Credentials[i].Env)
                    = Credentials[CurTool.Credentials[i].Secret]

(* C6: an exec that passes authorization, lookup and validation for a tool  *)
(* with an environment binding whose secret is not in the SecretStore is    *)
(* answered by error("credential not found: <secret>"), starts no child,    *)
(* returns to the read loop, and writes no audit record with status ok.     *)
MissingBinding(t, i) ==
    /\ t.Credentials[i].Env # ""
    /\ t.Credentials[i].Secret \notin DOMAIN Credentials

ReachesEnv ==
    /\ cur.id > 0
    /\ cur.authOk
    /\ cur.req.tool \in DOMAIN Tools
    /\ ~ValidateArgs(CurTool, cur.req.args).err

C6_MissingCredential ==
    (ReachesEnv /\ \E i \in 1..Len(CurTool.Credentials) : MissingBinding(CurTool, i)) =>
        /\ \E i \in 1..Len(CurTool.Credentials) :
              /\ MissingBinding(CurTool, i)
              /\ wire = <<ErrorRec(cur.id, [text |-> "credential not found: ",
                                            secret |-> CurTool.Credentials[i].Secret])>>
        /\ child = NoChild
        /\ pc = "idle"
        /\ \A k \in 1..Len(auditLog) : auditLog[k].status # "ok"

C6_Witness ==
    /\ ReachesEnv
    /\ \E i \in 1..Len(CurTool.Credentials) : MissingBinding(CurTool, i)
    /\ wire # <<>>

(* C7: for a tool with neither pass_args nor an args_pattern, an exec with  *)
(* at least one argument is rejected: an error is the only record, no       *)
(* child is started, and the audit status is invalid_args.                  *)
C7_DenyAllArgs ==
    (/\ cur.id > 0
     /\ cur.authOk
     /\ cur.req.tool \in DOMAIN Tools
     /\ ~CurTool.PassArgs
     /\ CurTool.ArgsPattern = <<>>
     /\ Len(cur.req.args) >= 1) =>
        /\ Types(wire) = <<"error">>
        /\ child = NoChild
        /\ cur.reached = "validate"
        /\ auditOn => Len(auditLog) = 1 /\ auditLog[1].status = "invalid_args"

(* C8: for a pattern-constrained tool, an accepted argument matches the     *)
(* pattern as a whole, anchors written or not.                              *)
FullMatch(re, s) == s # <<>> /\ \A k \in 1..Len(s) : s[k] \in re.class

C8_FullMatch ==
    (/\ call.fn = "ValidateArgs"
     /\ call.done
     /\ ~call.tool.PassArgs
     /\ call.tool.ArgsPattern # <<>>
     /\ call.out = NoError) =>
        \A i \in 1..Len(call.args) :
            FullMatch(Compile(call.tool.ArgsPattern), call.args[i])

(* C9: ValidateArgs on a tool with a compiled pattern returns no error iff  *)
(* pass_args is set or every argument matches (MatchString); the empty      *)
(* vector is accepted; an error names the first argument that does not      *)
(* match.                                                                   *)
ArgMatches(i) == MatchString(Compile(call.tool.ArgsPattern), call.args[i])

C9_ValidateArgs ==
    (call.fn = "ValidateArgs" /\ call.done /\ call.tool.ArgsPattern # <<>>) =>
        /\ (call.out = NoError) <=>
              (call.tool.PassArgs \/ \A i \in 1..Len(call.args) : ArgMatches(i))
        /\ call.tool.PassArgs => call.out = NoError
        /\ call.args = <<>> => call.out = NoError
        /\ call.out.err =>
              \E i \in 1..Len(call.args) :
                  /\ ~ArgMatches(i)
                  /\ \A j \in 1..(i - 1) : ArgMatches(j)
                  /\ call.out = ArgError(call.args[i])

C9_Witness ==
    /\ call.fn = "ValidateArgs"
    /\ call.done
    /\ ~call.tool.PassArgs
    /\ call.tool.ArgsPattern = <<"^", "[a]+", "$">>
    /\ call.args = <<sA, sAB>>
    /\ call.out = ArgError(sAB)

(* C10: an authorized exec naming a tool that is not in the registry gets   *)
(* the single record error("unknown tool: <name>"), no started, no exit and *)
(* no child; the session returns to the read loop; the audit file, when one *)
(* is configured, gets one record with status unknown_tool, and without one *)
(* nothing is written.                                                      *)
UnknownToolAnswer ==
    /\ wire = <<ErrorRec(cur.id, [text |-> "unknown tool: ", tool |-> cur.req.tool])>>
    /\ child = NoChild
    /\ pc = "idle"

UnknownToolDispatch ==
    /\ cur.id > 0
    /\ cur.authOk
    /\ cur.req.tool \notin DOMAIN Tools

C10_UnknownTool ==
    UnknownToolDispatch =>
        /\ UnknownToolAnswer
        /\ auditOn => /\ Len(auditLog) = 1
                      /\ auditLog[1].status = "unknown_tool"
                      /\ auditLog[1].tool = cur.req.tool
                      /\ auditLog[1].exit_code = -1
        /\ ~auditOn => auditLog = <<>>

C10_Witness ==
    /\ UnknownToolDispatch
    /\ auditOn
    /\ wire # <<>>

\* C10 as stated: one audit record with status unknown_tool is written
C10_AlwaysAudited ==
    UnknownToolDispatch =>
        /\ UnknownToolAnswer
        /\ Len(auditLog) = 1
        /\ auditLog[1].status = "unknown_tool"

(***************************************************************************)
(* C11: after the exit (or error) record of an exec the session is idle:   *)
(* a ping or exec record the caller sends next is read by the session loop *)
(* and answered, one pong for a ping and a new dispatch for an exec,       *)
(* whether or not the caller sent stdin_close during the previous exec.    *)
(* Stated of every step that takes a record off the connection while the   *)
(* session is idle after an exec.                                          *)
(***************************************************************************)
C11_IdleAfterExec ==
    [][(/\ pc = "idle"
        /\ cur.id > 0
        /\ inbox # <<>>
        /\ inbox' = Tail(inbox))
       => /\ Head(inbox).type = "ping" => wire' = Append(wire, PongRec)
          /\ Head(inbox).type = "exec" => cur'.id = cur.id + 1]_vars

(***************************************************************************)
(* C12: during an exec the payloads of the caller's stdin records are      *)
(* written to the child's standard input in the order sent, none dropped,  *)
(* and a stdin_close record closes the child's standard input and stops    *)
(* the stdin consumption of that exec.  Stated of every step that takes a  *)
(* record off the connection while the child runs with its stdin open.     *)
(***************************************************************************)
C12_StdinInOrder ==
    [][(/\ pc = "run"
        /\ child.alive
        /\ child.stdinOpen
        /\ inbox # <<>>
        /\ inbox' = Tail(inbox))
       => /\ Head(inbox).type = "stdin"
               => child'.stdin = Append(child.stdin, Head(inbox).data)
          /\ Head(inbox).type = "stdin_close"
               => ~child'.stdinOpen /\ child.req \notin stdinPumps']_vars

(***************************************************************************)
(* C13: if the connection is lost while an exec is running, the daemon     *)
(* signals the child to terminate and closes its pipes, and no exit record *)
(* is sent: the child does not keep running after its session is gone.     *)
(* Stated of the step in which the daemon sees the loss (the read error of *)
(* the exec's stdin goroutine), and of every later write to the wire.      *)
(***************************************************************************)
C13_ConnectionLoss ==
    [][/\ (/\ pc = "run"
           /\ child.alive
           /\ clientClosed
           /\ inbox = <<>>
           /\ child.req \in stdinPumps
           /\ child.req \notin stdinPumps')
          => ~child'.alive
       /\ (clientClosed /\ inbox = <<>> /\ wire' # wire)
          => wire'[Len(wire')].type # "exit"]_vars

(***************************************************************************)
(* C14: on daemon shutdown the listener is closed, so that no new          *)
(* connection is accepted, and every session with a running child          *)
(* terminates that child before the daemon exits.                          *)
(***************************************************************************)
C14_Shutdown ==
    pc = "exited" => listener = "closed" /\ ~child.alive

(***************************************************************************)
(* C15: with an audit file configured, the number of audit records equals  *)
(* the number of completed exec dispatches, whether the dispatch ended     *)
(* with exit or with an error of any kind; ping and malformed records      *)
(* write no audit record.  The audit window holds the records written      *)
(* since the latest exec record was read, so a completed dispatch has      *)
(* exactly one record in it.                                               *)
(***************************************************************************)
C15_AuditCount ==
    (auditOn /\ cur.id > 0 /\ pc = "idle") => Len(auditLog) = 1

(***************************************************************************)
(* C16: every audit record's status is one of ok, auth_failed,             *)
(* unknown_tool, invalid_args, start_failed and names the step at which    *)
(* the dispatch ended; a record with another status than ok has exit_code  *)
(* -1, and a record with status ok has the code of the exit record sent    *)
(* for that exec.                                                          *)
(***************************************************************************)
AuditStatuses ==
    {"ok", "auth_failed", "unknown_tool", "invalid_args", "start_failed"}

\* the step of handleExec that a status names
StatusStep(status) ==
    CASE status = "ok" -> "started"
      [] status = "auth_failed" -> "auth"
      [] status = "unknown_tool" -> "lookup"
      [] status = "invalid_args" -> "validate"
      [] status = "start_failed" -> "start"
      [] OTHER -> "none"

C16_AuditStatus ==
    \A i \in 1..Len(auditLog) :
        LET a == auditLog[i]
        IN /\ a.status \in AuditStatuses
           /\ a.req = cur.id
           /\ StatusStep(a.status) = cur.reached
           /\ a.status # "ok" => a.exit_code = -1
           /\ a.status = "ok" =>
                \E j \in 1..Len(wire) : wire[j] = ExitRec(a.req, a.exit_code)

C16_Witness ==
    /\ Len(auditLog) = 1
    /\ auditLog[1].status = "ok"
    /\ auditLog[1].exit_code = 1
    /\ wire[Len(wire)] = ExitRec(cur.id, 1)

(***************************************************************************)
(* C17: secret-store round trip.  After initialize(P) with password pw,    *)
(* load(P, pw) is the empty mapping; and after a mapping M has been stored *)
(* at P under pw by an add or rm, load(P, pw) equals M exactly.            *)
(***************************************************************************)
\* the latest command ended without error and wrote the file
Stored == op.n > 0 /\ op.err = "" /\ op.cmd \in {"init", "add", "rm"}

C18_NoPlaintext ==
    /\ \A i \in 1..Len(op.writes) :
          /\ op.writes[i].path = "creds"
          /\ op.writes[i].data.kind \in {"age", "partial"}
    /\ disk.creds.exists => disk.creds.data.kind \in {"age", "partial"}
    /\ Stored =>
          op.writes = <<[path |-> "creds",
                         data |-> Encrypt(op.password, Marshal(op.creds))]>>

C18_Witness ==
    /\ Stored
    /\ op.cmd = "rm"
    /\ op.before.exists
    /\ op.creds # EmptyCreds
    /\ Len(op.writes) = 1
    /\ op.writes[1].data.kind = "age"

(***************************************************************************)
(* C19: every secrets command that fails before its write (decrypt failure *)
(* from a wrong password, rm of a name that is not in the store, password  *)
(* confirmation mismatch, unconfirmed overwrite, unreadable keyfile)       *)
(* leaves the credentials file byte for byte as it was; and add, list, rm  *)
(* and the daemon's load, run with a non-empty password different from the *)
(* one the file was stored under, fail with a decrypt error.               *)
(***************************************************************************)
\* the latest command ran on a file stored under another password than the
\* one it was given
WrongPassword ==
    /\ op.n > 0
    /\ op.before.exists
    /\ op.before.data.kind = "age"
    /\ op.password # <<>>
    /\ op.password # op.before.data.scrypt

WriteErrors == {"writing", "writing file"}

C19_FailureFrame ==
    /\ (op.n > 0 /\ op.err # "" /\ op.err \notin WriteErrors)
          => disk.creds = op.before
    /\ (WrongPassword /\ op.cmd \in {"add", "list", "rm", "load"})
          => op.err = "decrypting"

C19_Witness ==
    /\ WrongPassword
    /\ op.cmd = "rm"
    /\ op.err = "decrypting"
    /\ disk.creds = op.before
    /\ op.before.data.body # <<>>

\* the failures C19 lists
ListedFailures ==
    {"decrypting", "not found", "passwords don't match", "aborted",
     "reading keyfile"}

\* C19 as stated: the listed failures leave the file unchanged, and every
\* command run with a different password fails with a decrypt error
C19_EveryOperation ==
    /\ (op.n > 0 /\ op.err \in ListedFailures) => disk.creds = op.before
    /\ WrongPassword => op.err = "decrypting"

(***************************************************************************)
(* C20: a successful add changes the stored mapping only at K (K maps to   *)
(* the entered value, replacing any previous one) and a successful rm only *)
(* removes K: every other name keeps its value, the password under which   *)
(* the file decrypts is unchanged, and list afterwards shows exactly the   *)
(* resulting key set.                                                      *)
(***************************************************************************)
\* the mapping on disk before the latest command
Before ==
    IF op.before.exists /\ op.before.data.kind = "age"
    THEN Unmarshal(op.before.data.body)
    ELSE EmptyCreds

C20_Frame ==
    (Stored /\ op.cmd \in {"add", "rm"}) =>
        LET new == LoadCredentialsEncrypted(disk.creds, op.password).creds
        IN /\ Decrypts(disk.creds.data, op.password)
           /\ op.before.exists => Decrypts(op.before.data, op.password)
           /\ op.cmd = "add" =>
                /\ DOMAIN new = DOMAIN Before \cup {op.key}
                /\ new[op.key] = op.value
           /\ op.cmd = "rm" =>
                /\ op.key \in DOMAIN Before
                /\ DOMAIN new = DOMAIN Before \ {op.key}
           /\ \A n \in DOMAIN Before \ {op.key} : new[n] = Before[n]
           /\ \A in \in Inputs(TypedTexts, {<<>>}, {"v"}, {<<>>}, {"ok"}) :
                LET l == listSecrets(disk, in)
                IN l.err = "" => l.out = DOMAIN new

C20_Witness ==
    /\ Stored
    /\ op.cmd = "add"
    /\ op.key = "j"
    /\ DOMAIN Before = SecretNames
    /\ Before["j"] # op.value
    /\ LoadCredentialsEncrypted(disk.creds, op.password).creds
         = Put(Before, "j", op.value)
    /\ \E in \in Inputs(TypedTexts, {<<>>}, {"v"}, {<<>>}, {"ok"}) :
          listSecrets(disk, in).err = ""

(***************************************************************************)
(* C21: every secrets operation (init, add, list, rm) takes its password   *)
(* from the first available source in the order explicit keyfile,          *)
(* <path>.keyfile, a file named keyfile in the directory, prompt: so an    *)
(* operation that succeeded without --keyfile used the password of         *)
(* <path>.keyfile when that file exists, and else the password of the      *)
(* directory's keyfile when that one exists.                               *)
(***************************************************************************)
SecretsCommands == {"init", "add", "list", "rm"}

C21_PasswordPrecedence ==
    (op.n > 0 /\ op.cmd \in SecretsCommands /\ op.err = ""
        /\ op.keyfilePath = "") =>
        /\ disk.autoKeyfile.exists =>
              op.password = TrimSpace(disk.autoKeyfile.text)
        /\ (~disk.autoKeyfile.exists /\ disk.dirKeyfile.exists) =>
              op.password = TrimSpace(disk.dirKeyfile.text)

(***************************************************************************)
(* C22: init on a path that exists overwrites it only after an affirmative *)
(* answer: without one it fails and the file is unchanged; an init that    *)
(* succeeds (path absent, or overwrite confirmed) leaves a file that       *)
(* decrypts under the new password to the empty mapping.                   *)
(***************************************************************************)
YesAnswers == {<<"y">>, <<" ", "Y">>}

C22_InitConfirm ==
    (op.n > 0 /\ op.cmd = "init") =>
        /\ (op.before.exists /\ op.answer \notin YesAnswers) =>
              /\ op.err = "aborted"
              /\ disk.creds = op.before
        /\ op.err = "" =>
              /\ op.before.exists => op.answer \in YesAnswers
              /\ disk.creds.exists
              /\ Decrypts(disk.creds.data, op.password)
              /\ LoadCredentialsEncrypted(disk.creds, op.password)
                    = [err |-> "", creds |-> EmptyCreds]

C22_Witness ==
    /\ op.cmd = "init"
    /\ op.err = ""
    /\ op.answer = <<" ", "Y">>
    /\ op.before.exists
    /\ \E pw \in StorePasswords :
          DOMAIN LoadCredentialsEncrypted(op.before, pw).creds = SecretNames
    /\ disk.creds # op.before

(***************************************************************************)
(* C23: after every successful init, add or rm the credentials file has    *)
(* mode 0600, whether the operation created the file or the file existed   *)
(* before with other permissions.                                          *)
(***************************************************************************)
C23_OwnerOnly == Stored => disk.creds.mode = "0600"

(***************************************************************************)
(* C24: a process that reads the credentials file while an add, rm or init *)
(* is writing it sees the complete old content or the complete new         *)
(* content, never an empty or partial file.                                *)
(***************************************************************************)
C24_AtomicStore ==
    (op.n > 0 /\ op.cmd \in {"load", "list"} /\ call # NoCall) =>
        op.before \in {call.before, call.r.disk.creds}

(***************************************************************************)
(* C25: matchIP(ip, entry) is true iff ip equals entry as a string or      *)
(* entry is a CIDR block containing ip; an entry that is neither, and an   *)
(* unparseable ip, do not match.  ip_ok is true when the allowlist is      *)
(* empty, and otherwise iff the host part of the peer address (port and    *)
(* IPv6 brackets stripped) matches at least one entry.                     *)
(***************************************************************************)
\* entry is the block of family f with prefix length b around address m,
\* and ip is an address of it
InBlock(ip, entry) ==
    \E f \in {4, 6}, n \in 0..3, m \in 0..3, b \in 0..2 :
        /\ ip \in Spellings(f, n)
        /\ \E a \in Spellings(f, m) : entry = a \o <<"/", Digits[b + 1]>>
        /\ n \div Pow2(2 - b) = m \div Pow2(2 - b)

Matches(ip, entry) == ip = entry \/ InBlock(ip, entry)

HostPart(addr) == (CHOOSE p \in PeerAddrs : p.addr = addr).host

C25_PeerMatch ==
    /\ (call.fn = "matchIP" /\ call.done) =>
          (call.out <=> Matches(call.clientIP, call.allowed))
    /\ (call.fn = "extractIP" /\ call.done) =>
          /\ \A p \in PeerAddrs : call.addr = p.addr => call.out = p.host
          /\ IndexByte(call.addr, ":") = 0 => call.out = call.addr
    /\ (call.fn = "ipValid" /\ call.done) =>
          (call.out <=>
              \/ auth.AllowedIPs = {}
              \/ \E e \in auth.AllowedIPs : Matches(HostPart(remoteAddr), e))

C25_Witness ==
    /\ call.fn = "ipValid"
    /\ call.done
    /\ remoteAddr = Addr6(3)
    /\ auth.AllowedIPs = {<<"0">> \o IP6(2) \o <<"/", "1">>}
    /\ call.out

(***************************************************************************)
(* C26: the caller of a non-interactive exec reads records until the first *)
(* exit or error; on exit{code} its process ends with exactly that exit    *)
(* code, and on error it ends with a diagnostic and exit code 255.         *)
(***************************************************************************)
C26_ClientExit ==
    (client.pc = "exited" /\ client.mode = "exec"
        /\ client.cause \in {"exit", "error"}) =>
        LET rec == wire[client.read]
        IN /\ rec.type = client.cause
           /\ \A i \in 1..(client.read - 1) :
                 wire[i].type \notin {"exit", "error"}
           /\ rec.type = "exit" => client.status = rec.code
           /\ rec.type = "error" => client.status = 255 /\ client.diag # ""

(***************************************************************************)
(* C27: the caller of an interactive exec emits one stdin record per line  *)
(* read from its own standard input, in order; it emits stdin_close        *)
(* exactly once when its own stdin reaches end of file, and exactly once   *)
(* when the transport aborts; never twice for one exec.                    *)
(***************************************************************************)
IsStdinClose(m) == m.type = "stdin_close"

IsStdin(m) == m.type = "stdin"

IsLine(piece) == piece.nl

Closes == Len(SelectSeq(client.emitted, IsStdinClose))

\* the lines of own stdin that the goroutine has read so far
LinesRead ==
    LET lines == SelectSeq(client.input, IsLine)
        left  == SelectSeq(client.stdin, IsLine)
    IN SubSeq(lines, 1, Len(lines) - Len(left))

C27_StdinClose ==
    (client.pc # "none" /\ client.mode = "interactive") =>
        LET recs == SelectSeq(client.emitted, IsStdin)
        IN /\ Len(recs) = Len(LinesRead)
           /\ \A i \in 1..Len(recs) : recs[i].data = LinesRead[i].data
           /\ Closes <= 1
           /\ client.pump = "done" => Closes = 1 /\ IsStdinClose(
                 client.emitted[Len(client.emitted)])
           /\ client.cause = "abort" => Closes = 1

(***************************************************************************)
(* C29: tools add and tools rm change only the named tool's entry of the   *)
(* configuration document: every other tool entry, with the fields the     *)
(* program does not know, and every other top-level key are preserved;     *)
(* tools rm of a name that is not configured fails and leaves the document *)
(* unchanged.                                                              *)
(***************************************************************************)
\* the tools of a document other than name, as a reader of the document
\* finds them: the name each key spells, with its entry
OtherTools(doc, name) ==
    {<<k.text, doc.tools[k]>> : k \in {x \in DOMAIN doc.tools : x.text # name}}

C29_ToolsFrame ==
    (op.n > 0 /\ op.cmd \in {"tools add", "tools rm"}) =>
        /\ op.err = "" =>
              /\ OtherTools(disk.config, op.key) = OtherTools(op.config, op.key)
              /\ disk.config.top = op.config.top
        /\ (op.cmd = "tools rm"
              /\ \A k \in DOMAIN op.config.tools : k.text # op.key) =>
              /\ op.err # ""
              /\ disk.config = op.config

(***************************************************************************)
(* C28: no record the daemon itself generates (started, exit, error, pong) *)
(* and no audit record contains a secret value: with a second store of the *)
(* same keys and other values the daemon answers and audits every request  *)
(* in the same way, and diagnostics name a secret by its store key.  The   *)
(* two stores are compared in the state that follows the dispatch.         *)
(***************************************************************************)
\* a store with the keys of Credentials and other values
OtherCredentials == [s \in DOMAIN Credentials |-> "beta"]

StoreValues == {Credentials[s] : s \in DOMAIN Credentials}

\* the texts of a diagnostic
MessageTexts(m) == {m[f] : f \in DOMAIN m \cap {"text", "tool", "secret", "type"}}

SecretFree(r) ==
    CASE r.type = "started" -> r = StartedRec(r.req)
      [] r.type = "exit"    -> r = ExitRec(r.req, r.code) /\ r.code \in ExitCodes
      [] r.type = "pong"    -> r = PongRec
      [] r.type = "error"   ->
            /\ r = ErrorRec(r.req, r.message)
            /\ MessageTexts(r.message) \cap StoreValues = {}
            /\ "secret" \in DOMAIN r.message =>
                  \E t \in DOMAIN Tools, i \in 1..MaxArgs :
                      /\ i <= Len(Tools[t].Credentials)
                      /\ r.message.secret = Tools[t].Credentials[i].Secret
      [] OTHER -> TRUE

C28_NoSecretInRecords ==
    /\ \A i \in 1..Len(wire) : SecretFree(wire[i])
    /\ \A i \in 1..Len(auditLog) :
          /\ \E code \in ExitCodes, status \in AuditStatuses :
                <<auditLog[i]>> = audit(<<>>, TRUE, cur.id, remoteAddr, cur.req,
                                        code, status)
          /\ {auditLog[i].tool, auditLog[i].status} \cap StoreValues = {}
    /\ (cur.id > 0 /\ Len(wire) = 1 /\ child \in {NoChild, NewChild(cur.id)}) =>
          \A nodeID \in WhoisResults, os \in OSOutcomes :
              LET x == handleExec(Credentials, auth, remoteAddr, cur.req,
                                  nodeID, os)
                  y == handleExec(OtherCredentials, auth, remoteAddr, cur.req,
                                  nodeID, os)
              IN /\ x.started = y.started
                 /\ x.message = y.message
                 /\ x.audit = y.audit
                 /\ x.reached = y.reached

C28_Witness ==
    /\ pc = "idle"
    /\ cur.reached = "started"
    /\ \E i \in 1..Len(cur.env) : cur.env[i][2] \in StoreValues
    /\ \E i \in 1..Len(wire) : wire[i].type = "exit"
    /\ Len(auditLog) > 0

(***************************************************************************)
(* C30: for each output stream of the child separately, the payloads of    *)
(* the stdout (resp. stderr) records written to the wire before exit are   *)
(* the lines the child wrote to that pipe, in the same order, none         *)
(* dropped, duplicated or truncated, for lines of any length.              *)
(***************************************************************************)
IsStdout(r) == r.type = "stdout"

IsStderr(r) == r.type = "stderr"

Payloads(recs) == [i \in 1..Len(recs) |-> recs[i].data]

\* the step that writes the exit record of the running exec
ExitStep == pc = "run" /\ pc' = "idle"

C30_OutputComplete ==
    [][ExitStep =>
          /\ Payloads(SelectSeq(wire, IsStdout)) = [i \in 1..child.nout |-> i]
          /\ Payloads(SelectSeq(wire, IsStderr)) = [i \in 1..child.nerr |-> i]]_vars

(***************************************************************************)
(* The audit specification: the sessions of one daemon, each a goroutine   *)
(* of handleConnection, as far as they call Server.audit.  A call returns  *)
(* at once when no audit file is configured; otherwise it takes s.auditMu, *)
(* writes the record's bytes with one Write and the newline with a second  *)
(* Write, and the deferred Unlock runs at the return.  auditFile.data is   *)
(* the file, one element per Write, in file order (the file is opened      *)
(* O_APPEND).                                                              *)
(***************************************************************************)
MaxSessions == 3  \* sessions of the daemon that run at the same time
MaxAudits == 1    \* audit records one session writes

Sessions == 1..MaxSessions

RecordBytes(s, n) == [by |-> s, n |-> n, part |-> "record"]
NewlineByte(s, n) == [by |-> s, n |-> n, part |-> "newline"]

InitAudit ==
    /\ \E s \in SessionSetups :
          auth = s[1] /\ remoteAddr = s[2] /\ auditOn = s[3]
    /\ call = NoCall
    /\ listener = "open"
    /\ disk = NoDisk
    /\ op = NoOp
    /\ inbox = <<>>
    /\ sent = 0
    /\ clientClosed = FALSE
    /\ pc = "idle"
    /\ cur = NoExec
    /\ wire = <<>>
    /\ auditLog = <<>>
    /\ child = NoChild
    /\ pumpOut = "off"
    /\ pumpErr = "off"
    /\ stdinPumps = {}
    /\ client = NoClient
    /\ auditFile = [data |-> <<>>, mu |-> 0, at |-> [s \in Sessions |-> "out"],
                    entry |-> [s \in Sessions |-> 0]]

\* handleExec of session s calls s.audit: if s.auditFile == nil { return },
\* the entry is built, and the goroutine arrives at s.auditMu.Lock()
AuditEnter(s) ==
    /\ auditFile.at[s] = "out"
    /\ auditFile.entry[s] < MaxAudits
    /\ auditFile' = [auditFile EXCEPT
                        !.entry[s] = @ + 1,
                        !.at[s] = IF auditOn THEN "lock" ELSE "out"]
    /\ UNCHANGED <<auth, auditOn, remoteAddr, sessionVars, call, listener,
                   disk, op>>

\* mutant: the mutex is not taken
AuditLock_NoMutex(s) ==
    /\ auditFile.at[s] = "lock"
    /\ auditFile' = [auditFile EXCEPT !.at[s] = "write"]
    /\ UNCHANGED <<auth, auditOn, remoteAddr, sessionVars, call, listener,
                   disk, op>>

\* s.auditMu.Lock() returns
AuditLock(s) ==
    /\ auditFile.at[s] = "lock"
    /\ auditFile.mu = 0
    /\ auditFile' = [auditFile EXCEPT !.mu = s, !.at[s] = "write"]
    /\ UNCHANGED <<auth, auditOn, remoteAddr, sessionVars, call, listener,
                   disk, op>>

\* data, _ := json.Marshal(entry); s.auditFile.Write(data)
AuditWrite(s) ==
    /\ auditFile.at[s] = "write"
    /\ auditFile' = [auditFile EXCEPT
                        !.data = Append(@, RecordBytes(s, auditFile.entry[s])),
                        !.at[s] = "newline"]
    /\ UNCHANGED <<auth, auditOn, remoteAddr, sessionVars, call, listener,
                   disk, op>>

\* s.auditFile.Write([]byte("\n")), the return and the deferred Unlock
AuditNewline(s) ==
    /\ auditFile.at[s] = "newline"
    /\ auditFile' = [auditFile EXCEPT
                        !.data = Append(@, NewlineByte(s, auditFile.entry[s])),
                        !.mu = IF @ = s THEN 0 ELSE @,
                        !.at[s] = "out"]
    /\ UNCHANGED <<auth, auditOn, remoteAddr, sessionVars, call, listener,
                   disk, op>>

NextAudit ==
    \E s \in Sessions :
        \/ AuditEnter(s)
        \/ AuditLock(s)
        \/ AuditWrite(s)
        \/ AuditNewline(s)

SpecAudit == InitAudit /\ [][NextAudit]_vars

(***************************************************************************)
(* C31: audit records written by sessions that run at the same time never  *)
(* interleave: the audit file is a sequence of complete records, each      *)
(* followed by its own newline, and nothing is written between a record's  *)
(* bytes and its newline.  Only the record at the end of the file may      *)
(* still lack its newline, while its writer holds the mutex and is about   *)
(* to write it.                                                            *)
(***************************************************************************)
C31_AuditSerialized ==
    LET data == auditFile.data
    IN \A i \in 1..Len(data) :
          IF data[i].part = "record"
          THEN IF i = Len(data)
               THEN /\ auditFile.mu = data[i].by
                    /\ auditFile.at[data[i].by] = "newline"
               ELSE data[i + 1] = NewlineByte(data[i].by, data[i].n)
          ELSE /\ i > 1
               /\ data[i - 1] = RecordBytes(data[i].by, data[i].n)

\* one session has written its record and not yet the newline, a second
\* waits for the mutex, and a record of a third is already in the file
C31_Witness ==
    /\ auditFile.at[1] = "newline"
    /\ auditFile.at[2] = "lock"
    /\ Len(auditFile.data) = 3
    /\ auditFile.data[1].by = 3

UnknownRecord(m) == m.type \in {"junk", "bogus"}

UnknownAnswer(m) ==
    IF m.type = "junk" THEN ErrorRec(0, [text |-> "invalid JSON"])
    ELSE ErrorRec(0, [text |-> "unknown message type: ", type |-> m.type])

\* the step takes an unknown record off the connection of an idle session
TakesUnknown ==
    /\ pc = "idle"
    /\ inbox # <<>>
    /\ inbox' = Tail(inbox)
    /\ UnknownRecord(Head(inbox))

\* everything but the connection's two directions is as it was
SessionKept ==
    /\ pc' = "idle"
    /\ child' = child
    /\ cur' = cur
    /\ stdinPumps' = stdinPumps
    /\ <<clientClosed, sent, auditLog, pumpOut, pumpErr, listener>>'
          = <<clientClosed, sent, auditLog, pumpOut, pumpErr, listener>>

C34_EmptyTokenDenied ==
    (call.fn = "authenticate" /\ call.done /\ call.token = "") =>
        /\ ~tokenValid(auth, call.token)
        /\ auth.RequireToken => ~call.out

(***************************************************************************)
(* C35: the rule in the comment of authenticate.  If require_token is      *)
(* true, a request is accepted iff its token is valid and its IP or its    *)
(* Tailscale node identity is valid; if require_token is false, a valid    *)
(* token, a match in the IP whitelist and a valid Tailscale identity are   *)
(* each sufficient.                                                        *)
(***************************************************************************)
\* the peer's IP matches an entry of a configured whitelist
IpMatch ==
    \E e \in auth.AllowedIPs : matchIP(extractIP(remoteAddr), e)

C35_CommentRule ==
    (call.fn = "authenticate" /\ call.done) =>
        IF auth.RequireToken
        THEN call.out <=> (TokenOk /\ (IpOk \/ NodeOk))
        ELSE (TokenOk \/ IpMatch \/ NodeOk) => call.out

(***************************************************************************)
(* C36: node_ok is true only if the peer-identity lookup succeeded and     *)
(* returned a node id that is in the configured node allowlist: a failed   *)
(* lookup yields no node identity (getTailscaleNodeID returns ""), so      *)
(* node_ok is false for every content of the allowlist, and a request that *)
(* passes neither by token nor by IP is then denied; the failure does not  *)
(* by itself deny a request that passes by token or by IP.                 *)
(***************************************************************************)
C36_FailedLookup ==
    (call.fn = "authenticate" /\ call.done /\ call.nodeID = "") =>
        /\ ~tailscaleValid(auth, call.nodeID)
        /\ (~TokenOk /\ ~IpMatch) => ~call.out
        /\ (auth.RequireToken /\ TokenOk /\ IpOk) => call.out
        /\ (~auth.RequireToken /\ (TokenOk \/ IpMatch)) => call.out

(***************************************************************************)
(* C37: a session has at most one active child process at any time:        *)
(* handleExec runs synchronously inside the connection loop, so no second  *)
(* exec is dispatched on a connection before the exit or error record of   *)
(* the previous exec on that connection has been written.  Stated of every *)
(* step: a child that exists is the child of the latest exec, whose        *)
(* handleExec has not returned; and a step that dispatches an exec starts  *)
(* from an idle session without a child, with the previous exec's exit or  *)
(* error on the wire.                                                      *)
(***************************************************************************)
\* the exit or error record of the latest exec has been written
Finished ==
    \E i \in 1..Len(wire) :
        wire[i].req = cur.id /\ wire[i].type \in {"exit", "error"}

C37_OneChild ==
    [][/\ child' # NoChild => child'.req = cur'.id /\ pc' = "run"
       /\ cur'.id # cur.id =>
             /\ pc = "idle"
             /\ child = NoChild
             /\ cur.id > 0 => Finished]_vars

\* the child of a second exec runs, after the first exec on the connection
\* had a child of its own (its stdin goroutine is still there)
C37_Witness ==
    /\ cur.id = 2
    /\ pc = "run"
    /\ child.alive
    /\ child.req = 2
    /\ 1 \in stdinPumps

(***************************************************************************)
(* C38: at every moment at most one task reads from the connection's       *)
(* buffered reader: the stdin goroutine an exec started has stopped        *)
(* reading before the session loop reads the next idle-state record, so no *)
(* record sent after exit is consumed by a goroutine of an earlier exec,   *)
(* also when the caller never sent stdin_close.                            *)
(***************************************************************************)
C38_OneReader ==
    /\ pc = "idle" => stdinPumps = {}
    /\ pc = "run" => stdinPumps \subseteq {cur.id}

(***************************************************************************)
(* C39: authorization fails closed: on a daemon whose auth configuration   *)
(* has no tokens, no allowed_ips, no tailscale_nodes and require_token     *)
(* false, every exec request of every peer with every token is denied and  *)
(* no process is ever started.                                             *)
(***************************************************************************)
EmptyAuth == auth = AuthConfig({}, {}, {}, FALSE)

C39_FailsClosed ==
    EmptyAuth =>
        /\ child = NoChild
        /\ pc = "idle"
        /\ cur.id > 0 =>
              /\ ~cur.authOk
              /\ cur.reached = "auth"
              /\ wire = <<ErrorRec(cur.id, [text |-> "authentication failed"])>>

\* an exec with the token of other daemons, for a configured tool, was
\* denied
C39_Witness ==
    /\ EmptyAuth
    /\ cur.id = 1
    /\ cur.req.token = "T"
    /\ cur.req.tool = "echo"
    /\ wire # <<>>
    /\ wire[1].type = "error"

(***************************************************************************)
(* The termination specification: the credwrap caller process and a tool   *)
(* whose child ends when, and only when, it sees end of file on its        *)
(* standard input (cat without arguments).  The child's stdin is the read  *)
(* end of the pipe of cmd.StdinPipe(); it sees end of file when the        *)
(* daemon's stdin goroutine returns and its deferred stdin.Close() runs.   *)
(* Every task that can take a step eventually takes one; the transport     *)
(* does not have to abort, the caller's own stdin does not have to give a  *)
(* line, and the child does not have to write.                             *)
(***************************************************************************)
ChildExitAtEOF ==
    /\ child.alive
    /\ ~child.stdinOpen
    /\ child' = [child EXCEPT !.alive = FALSE, !.code = 0]
    /\ UNCHANGED <<auth, auditOn, remoteAddr, inbox, sent, clientClosed, pc,
                   cur, wire, auditLog, pumpOut, pumpErr, stdinPumps, call,
                   listener, disk, op, client, auditFile>>

NextTermination ==
    \/ ClientStart
    \/ ClientRecv
    \/ ClientTransportAbort
    \/ ClientStdinRead
    \/ ReadOther
    \/ ReadExec
    \/ ReadEOF
    \/ ChildWriteOut
    \/ ChildWriteErr
    \/ ChildExitAtEOF
    \/ PumpStdout
    \/ PumpStderr
    \/ StdinPumpRead
    \/ StdinPumpEOF
    \/ ExecExit

FairTermination ==
    /\ WF_vars(ClientRecv)
    /\ WF_vars(ReadOther)
    /\ WF_vars(ReadExec)
    /\ WF_vars(ReadEOF)
    /\ WF_vars(ChildExitAtEOF)
    /\ WF_vars(PumpStdout)
    /\ WF_vars(PumpStderr)
    /\ WF_vars(StdinPumpRead)
    /\ WF_vars(StdinPumpEOF)
    /\ WF_vars(ExecExit)

SpecTermination == Init /\ [][NextTermination]_vars /\ FairTermination

(***************************************************************************)
(* C40: a non-interactive Client.Exec call eventually returns for every    *)
(* tool whose child terminates once it sees end of file on its standard    *)
(* input: although the caller sends no stdin and no stdin_close record,    *)
(* the child's stdin is eventually closed, the child exits, the daemon     *)
(* sends exit, and the caller's process ends.                              *)
(***************************************************************************)
C40_ExecReturns ==
    (client.pc = "reading" /\ client.mode = "exec") ~> (client.pc = "exited")

====
